---- MODULE Spec2Model ----
(***************************************************************************)
(* RF test automation backend: the streaming test orchestrators            *)
(* (backend/services/tests_lora.py, tests_lte.py, tests_ble.py), their     *)
(* shared helpers (tests_common.py), the analyzer singleton                *)
(* (spectrum_service.py) and the event-stream consumer                     *)
(* (api/routes/tests_routes.py, _sse).                                     *)
(*                                                                         *)
(* Each orchestrator is a Python async generator.  It is modelled as a     *)
(* table of instructions indexed by a program counter 10*line+k, where     *)
(* line is the source line of the statement, and a small interpreter that  *)
(* implements yield / await / try-except-finally / async-with.             *)
(***************************************************************************)
EXTENDS Integers, Sequences, FiniteSets, TLC

VARIABLES
    variant,    \* which orchestrator this run executes
    valid,      \* caller parameters pass the orchestrator's validation
    gpc,        \* generator program counter (10*line+k), Closed when finished
    pend,       \* exception in flight while a finally block runs
    gend,       \* how the generator finished: "none" while alive
    gst,        \* generator frame: "new", "run" (consumer blocked in a call),
                \* "susp" (at a yield), "closed", "hung" (in a call that never
                \* returns)
    loc,        \* generator locals (spec, dut, modem_on_done, cw_on, ...)
    events,     \* events yielded by the generator, in order
    fgCalls,    \* hardware calls issued by the run itself, in order
    cancAt,     \* pc at which CancelledError was first raised in the generator, 0: never
    hw,         \* analyzer / DUT hardware-side state; armedAt: index in fgCalls
                \* of the run's last successful CW-on, 0: none; modemOnAt: index
                \* of its first successful LTE modem-on, 0: none
    cpc,        \* consumer (_sse.event_source) program counter
    cpend,      \* exception in flight in the consumer
    cend,       \* how the consumer finished
    sent,       \* event types delivered to the client
    withdrawn,  \* the client has disconnected
    delivered,  \* the framework's task cancellation has been delivered
    bgAbort,    \* background_abort_ble tasks
    bgTidy,     \* background_tidy_spectrum task
    bgDisc,     \* create_task(spec_call(spec.disconnect)) task
    run2,       \* concurrent-run model: per-run stage and the shared analyzer
    analyzer,       \* analyzer-session model: one SpectrumAnalyzer instance, its
                \* socket, the operation in progress and the cached singleton
    calc,       \* computation model: the arguments of one call of a pure
                \* function of the repository and, once applied, its result
    pool        \* singleton model: the worker threads inside ensure_analyzer,
                \* the cached _analyzer and the connections that are open

ctl  == <<gpc, pend, gend, gst, cpc, cpend, cend>>
bg   == <<bgAbort, bgTidy, bgDisc>>
vars == <<variant, valid, gpc, pend, gend, gst, loc, events, fgCalls, cancAt, hw,
          cpc, cpend, cend, sent, withdrawn, delivered, bgAbort, bgTidy, bgDisc, run2, analyzer, calc, pool>>

Closed == 0 - 1

\* the run has observed cancellation
canc == cancAt # 0

(***************************************************************************)
(* Exceptions.  ExcClass is what `except Exception` catches;               *)
(* CancelledError and GeneratorExit derive from BaseException.             *)
(***************************************************************************)
ExcClass == {"HwFault", "ValueError", "ConfigError", "ParseError", "RuntimeError"}

(***************************************************************************)
(* Instruction constructors.  Fields: op, a, b, c (strings), n (count),    *)
(* nxt (next pc), alt (pc taken when a failure is swallowed / else-branch; *)
(* 0 = the failure is raised).                                             *)
(***************************************************************************)
Ins(op, a, b, c, n, nxt, alt) ==
    [op |-> op, a |-> a, b |-> b, c |-> c, n |-> n, nxt |-> nxt, alt |-> alt]
\* yield evt(type, key=..., status=...); evt("done", ok=True) is written
\* Y("done", "ok", "true", nx)
Y(t, k, s, nx)     == Ins("yield", t, k, s, 0, nx, 0)
\* await spec_call(spec.<m>, ...) / await ensure_analyzer_async()
SP(m, nx, al)      == Ins("spec", "spec", m, "", 0, nx, al)
\* await dut_call(dut, "<m>", ...)
DU(m, nx, al)      == Ins("dut", "dut", m, "", 0, nx, al)
\* a retried awaited DUT call: attempt n times, sleep at alt between attempts
DR(m, n, nx, al)   == Ins("dutretry", "dut", m, "", n, nx, al)
\* DUTBLE(mac): synchronous construction of a DUT session object
NW(obj, nx, al)    == Ins("new", obj, "", "", 0, nx, al)
\* await asyncio.sleep(...)
SL(nx)             == Ins("sleep", "", "", "", 0, nx, 0)
\* the assignment left out: the local keeps its initial value
ST_left_out(var, val, nx) == SL(nx)
\* local assignment
ST(var, val, nx)   == Ins("set", var, "", "", val, nx, 0)
\* if <cond>: nxt else: alt
BR(cond, nx, al)   == Ins("branch", cond, "", "", 0, nx, al)
\* asyncio.create_task(<kind>(mac, protocol=<proto>))
TK(kind, proto, nx) == Ins("task", kind, proto, "", 0, nx, 0)
\* raise / re-raise of exception kind e
RS(e)              == Ins("raise", e, "", "", 0, 0, 0)
\* end of a finally block (or of __aexit__): re-raise what is pending, else nxt
EF(nx)             == Ins("endfin", "", "", "", 0, nx, 0)
\* a synchronous computation that may raise exception e (config load,
\* number parsing, trace checks)
CK(what, e, nx, al) == Ins("chk", what, e, "", 0, nx, al)
\* parameter validation: raises ValueError when the parameters are invalid
VL(nx)             == Ins("validate", "", "", "", 0, nx, 0)
\* <sess>.<m>(...): a DUT call made synchronously on the event loop
DS(sess, m, nx, al) == Ins("dutsync", sess, m, "", 0, nx, al)
\* a branch on a value read from the hardware: either way
BN(nx, al)         == Ins("either", "", "", "", 0, nx, al)
\* a local assigned from a DUT reading: var = whether the value read equals
\* the requested one
RD(var, nx)        == Ins("read", var, "", "", 0, nx, 0)
\* end of a `for attempt in range(1, n + 1)` iteration: nxt again, alt when done
LP(n, nx, al)      == Ins("loop", "", "", "", n, nx, al)

\* A try statement (or async-with): body lo..hi, handler region hlo..hhi,
\* pc of `except asyncio.CancelledError`, of `except Exception`, of `finally`
\* (0 = absent).
Blk(lo, hi, hlo, hhi, onCancel, onExc, fin) ==
    [lo |-> lo, hi |-> hi, hlo |-> hlo, hhi |-> hhi,
     onCancel |-> onCancel, onExc |-> onExc, fin |-> fin]

(***************************************************************************)
(* apply_analyzer_setup (tests_common.py 86-138), inlined at pc base:      *)
(* center and span failures are raised, the other five are swallowed.      *)
(***************************************************************************)
apply_analyzer_setup(base, nx) ==
    (base     :> SP("set_center_frequency", base + 1, 0)) @@
    (base + 1 :> SP("set_span", base + 2, 0)) @@
    (base + 2 :> SP("set_rbw", base + 3, base + 3)) @@
    (base + 3 :> SP("set_vbw", base + 4, base + 4)) @@
    (base + 4 :> SP("set_ref_level", base + 5, base + 5)) @@
    (base + 5 :> SP("set_ref_level_offset", base + 6, base + 6)) @@
    (base + 6 :> SP("set_peak_detector", nx, nx))

(***************************************************************************)
(* managed_ble (tests_common.py 50-72), inlined at pc base:                *)
(*   base   DUTBLE(mac)                                                    *)
(*   base+1 connect, up to MANAGED_BLE_ATTEMPTS attempts, linear backoff   *)
(*   base+2 backoff sleep                                                  *)
(*   base+3 __aexit__: disconnect with CLOSE_DUT_TIMEOUT, failure swallowed*)
(*   base+4 end of __aexit__                                               *)
(***************************************************************************)
MANAGED_BLE_ATTEMPTS == 3

managed_ble(base, body, after) ==
    (base     :> NW("dut", base + 1, 0)) @@
    (base + 1 :> DR("connect", MANAGED_BLE_ATTEMPTS, body, base + 2)) @@
    (base + 2 :> SL(base + 1)) @@
    (base + 3 :> DU("disconnect", base + 4, base + 4)) @@
    (base + 4 :> EF(after))

(***************************************************************************)
(* LoRa Tx Power, the except / finally clauses of the outer try            *)
(* (tests_lora.py 114-127).                                                *)
(***************************************************************************)
\* a variant whose generic handler reports Done itself before the finally
\* clause does
handlers_done_in_except ==
    (1160 :> BR("mac", 1170, 1180)) @@
    (1170 :> TK("abort", "LoRa", 1180)) @@
    (1180 :> BR("spec", 1190, 1220)) @@
    (1190 :> TK("tidy", "", 1200)) @@
    (1200 :> TK("disc", "", 1220)) @@
    (1220 :> RS("Cancelled")) @@
    (1240 :> Y("error", "", "", 1241)) @@
    (1241 :> Y("done", "ok", "true", 1270)) @@
    (1270 :> Y("done", "ok", "true", 1271)) @@
    (1271 :> EF(0))

run_tx_power_stream_handlers ==
    \* except asyncio.CancelledError (114-122)
    (1160 :> BR("mac", 1170, 1180)) @@
    (1170 :> TK("abort", "LoRa", 1180)) @@
    (1180 :> BR("spec", 1190, 1220)) @@
    (1190 :> TK("tidy", "", 1200)) @@
    (1200 :> TK("disc", "", 1220)) @@
    (1220 :> RS("Cancelled")) @@
    \* except Exception (123-124)
    (1240 :> Y("error", "", "", 1270)) @@
    \* finally (125-127)
    (1270 :> Y("done", "ok", "true", 1271)) @@
    (1271 :> EF(0))

(***************************************************************************)
(* LoRa Tx Power: tests_lora.py run_tx_power_stream (48-127).              *)
(***************************************************************************)
run_tx_power_stream_code ==
    (580  :> CK("config", "ConfigError", 670, 0)) @@
    (670  :> Y("start", "", "", 700)) @@
    (700  :> Y("step", "connectAnalyzer", "start", 710)) @@
    (710  :> SP("ensure_analyzer", 720, 0)) @@
    (720  :> Y("step", "connectAnalyzer", "done", 740)) @@
    (740  :> Y("step", "configureAnalyzer", "start", 750)) @@
    apply_analyzer_setup(750, 760) @@
    (760  :> Y("step", "configureAnalyzer", "done", 780)) @@
    (780  :> SL(810)) @@
    (810  :> Y("step", "connectDut", "start", 820)) @@
    managed_ble(820, 830, 1270) @@
    (830  :> Y("step", "connectDut", "done", 850)) @@
    (850  :> Y("step", "cwOn", "start", 860)) @@
    (860  :> DU("lora_cw_on", 870, 0)) @@
    (870  :> SL(880)) @@
    (880  :> Y("step", "cwOn", "done", 910)) @@
    (910  :> Y("step", "measure", "start", 920)) @@
    (920  :> SP("peak_search", 921, 0)) @@
    (921  :> SL(930)) @@
    (930  :> SP("get_marker_power", 940, 0)) @@
    (940  :> CK("num", "ParseError", 950, 0)) @@
    (950  :> Y("step", "measure", "done", 1050)) @@
    (1050 :> Y("result", "", "", 1080)) @@
    (1080 :> Y("step", "cwOff", "start", 1100)) @@
    (1100 :> DU("lora_cw_off", 1120, 0)) @@
    (1120 :> Y("step", "cwOff", "done", 1121)) @@
    (1121 :> EF(823)) @@
    run_tx_power_stream_handlers

run_tx_power_stream_blocks ==
    << Blk(1100, 1119, 0, 0, 0, 0, 1120),          \* try/finally 109-112
       Blk(830, 1129, 0, 0, 0, 0, 823),            \* async with managed_ble 82
       Blk(670, 1129, 1160, 1249, 1160, 1240, 1270) >>   \* try 66-127

(***************************************************************************)
(* LTE Tx Power: tests_lte.py run_lte_tx_power_stream (110-283).           *)
(* _retry (63-75) is called with attempts=2 for lte_modem_on, lte_cw_on.   *)
(***************************************************************************)
LTE_RETRY_ATTEMPTS == 2

run_lte_tx_power_stream_code ==
    (1220 :> CK("config", "ConfigError", 1350, 0)) @@
    (1350 :> CK("config", "ConfigError", 1360, 0)) @@
    (1360 :> VL(1380)) @@
    (1380 :> Y("start", "", "", 1420)) @@
    (1420 :> Y("step", "connectAnalyzer", "start", 1430)) @@
    (1430 :> SP("ensure_analyzer", 1440, 0)) @@
    (1440 :> Y("step", "connectAnalyzer", "done", 1460)) @@
    (1460 :> Y("step", "configureAnalyzer", "start", 1470)) @@
    apply_analyzer_setup(1470, 1500) @@
    (1500 :> Y("step", "configureAnalyzer", "done", 1580)) @@
    (1580 :> SL(1610)) @@
    (1610 :> Y("step", "connectDut", "start", 1630)) @@
    managed_ble(1630, 1650, 2830) @@
    (1650 :> Y("step", "connectDut", "done", 1680)) @@
    (1680 :> Y("step", "modemOn", "start", 1690)) @@
    (1690 :> DR("lte_modem_on", LTE_RETRY_ATTEMPTS, 1700, 1691)) @@
    (1691 :> SL(1690)) @@
    (1700 :> ST("modem_on_done", 1, 1710)) @@
    (1710 :> Y("step", "modemOn", "done", 1740)) @@
    (1740 :> Y("step", "abortTest", "start", 1760)) @@
    (1760 :> DU("lte_abort_test", 1800, 1800)) @@
    (1800 :> Y("step", "abortTest", "done", 1830)) @@
    (1830 :> Y("step", "cwOn", "start", 1840)) @@
    (1840 :> DR("lte_cw_on", LTE_RETRY_ATTEMPTS, 1890, 1841)) @@
    (1841 :> SL(1840)) @@
    (1890 :> SL(1900)) @@
    (1900 :> ST("cw_on", 1, 1910)) @@
    (1910 :> Y("step", "cwOn", "done", 1940)) @@
    (1940 :> Y("step", "measure", "start", 1950)) @@
    (1950 :> SP("peak_search", 1960, 0)) @@
    (1960 :> SL(1970)) @@
    (1970 :> SP("get_marker_power", 1980, 0)) @@
    (1980 :> CK("num", "ParseError", 1990, 0)) @@
    (1990 :> Y("step", "measure", "done", 2020)) @@
    (2020 :> BR("modem_on_done", 2030, 2150)) @@
    (2030 :> Y("step", "abortTest", "start", 2050)) @@
    (2050 :> DU("lte_abort_test", 2080, 2080)) @@
    (2080 :> Y("step", "abortTest", "done", 2110)) @@
    (2110 :> Y("step", "cwOff", "start", 2120)) @@
    (2120 :> Y("step", "cwOff", "done", 2150)) @@
    (2150 :> BR("modem_on_done", 2160, 2240)) @@
    (2160 :> Y("step", "modemOff", "start", 2180)) @@
    (2180 :> DU("lte_modem_off", 2210, 2210)) @@
    (2210 :> Y("step", "modemOff", "done", 2240)) @@
    (2240 :> Y("step", "disconnectDut", "start", 2260)) @@
    (2260 :> DU("disconnect", 2290, 2290)) @@
    (2290 :> Y("step", "disconnectDut", "done", 2300)) @@
    (2300 :> ST("cleanup_done", 1, 2390)) @@
    (2390 :> Y("result", "", "", 1633)) @@
    \* inner except Exception (241-272)
    (2430 :> BR("need_abort", 2450, 2720)) @@
    (2450 :> BR("cw_on", 2460, 2560)) @@
    (2460 :> Y("step", "abortTest", "start", 2480)) @@
    (2480 :> DU("lte_abort_test", 2530, 2510)) @@
    (2510 :> BR("mac", 2520, 2530)) @@
    (2520 :> TK("abort", "LTE", 2530)) @@
    (2530 :> Y("step", "abortTest", "done", 2560)) @@
    (2560 :> Y("step", "modemOff", "start", 2590)) @@
    (2590 :> DU("lte_modem_off", 2620, 2620)) @@
    (2620 :> Y("step", "modemOff", "done", 2650)) @@
    (2650 :> Y("step", "disconnectDut", "start", 2670)) @@
    (2670 :> DU("disconnect", 2700, 2700)) @@
    (2700 :> Y("step", "disconnectDut", "done", 2720)) @@
    (2720 :> Y("error", "", "", 2830)) @@
    \* outer except asyncio.CancelledError (274-281)
    (2760 :> BR("modem_on_done", 2770, 2780)) @@
    (2770 :> TK("abort", "LTE", 2780)) @@
    (2780 :> BR("spec", 2790, 2810)) @@
    (2790 :> TK("tidy", "", 2800)) @@
    (2800 :> TK("disc", "", 2810)) @@
    (2810 :> RS("Cancelled")) @@
    \* finally (282-283)
    (2830 :> Y("done", "ok", "true", 2831)) @@
    (2831 :> EF(0))

run_lte_tx_power_stream_blocks ==
    << Blk(1650, 2399, 0, 0, 0, 0, 1633),          \* async with managed_ble 163
       Blk(1630, 2399, 2430, 2729, 0, 2430, 0),    \* try 162 / except Exception 241
       Blk(1350, 2729, 2760, 2819, 2760, 0, 2830) >>   \* try 133 / except 274 / finally 282

(***************************************************************************)
(* LoRa Occupied Bandwidth: tests_lora.py run_obw_stream (316-506).        *)
(***************************************************************************)
run_obw_stream_code ==
    (3300 :> CK("config", "ConfigError", 3370, 0)) @@
    (3370 :> Y("start", "", "", 3510)) @@
    (3510 :> Y("step", "connectAnalyzer", "start", 3520)) @@
    (3520 :> SP("ensure_analyzer", 3530, 0)) @@
    (3530 :> Y("step", "connectAnalyzer", "done", 3560)) @@
    (3560 :> Y("step", "configureAnalyzer", "start", 3570)) @@
    apply_analyzer_setup(3570, 3630) @@
    (3630 :> Y("step", "configureAnalyzer", "done", 3750)) @@
    (3750 :> SL(3780)) @@
    (3780 :> Y("step", "connectDut", "start", 3790)) @@
    managed_ble(3790, 3800, 4880) @@
    (3800 :> ST("cap", 1, 3810)) @@
    (3810 :> Y("step", "connectDut", "done", 3830)) @@
    (3830 :> Y("step", "cwOn", "start", 3880)) @@
    (3880 :> DU("lora_modulated_cw_on", 3960, 0)) @@
    (3960 :> SL(3970)) @@
    (3970 :> Y("step", "cwOn", "done", 4000)) @@
    (4000 :> Y("step", "measure", "start", 4040)) @@
    (4040 :> SP("max_hold", 4050, 0)) @@
    (4050 :> Y("log", "", "", 4100)) @@
    (4100 :> SL(4140)) @@
    (4140 :> SP("get_raw_data", 4150, 0)) @@
    (4150 :> CK("trace", "RuntimeError", 4340, 0)) @@
    (4340 :> SP("query_span", 4350, 0)) @@
    (4350 :> CK("num", "RuntimeError", 4400, 0)) @@
    (4400 :> SP("query_points", 4480, 4480)) @@
    (4480 :> CK("obw", "ValueError", 4510, 0)) @@
    (4510 :> Y("step", "measure", "done", 4520)) @@
    (4520 :> Y("result", "", "", 4610)) @@
    \* inner except Exception (454-457)
    (4560 :> Y("error", "", "", 4570)) @@
    (4570 :> RS("Return")) @@
    (4610 :> Y("step", "cwOff", "start", 4630)) @@
    (4630 :> DU("lora_cw_off", 4650, 0)) @@
    (4650 :> Y("step", "cwOff", "done", 4651)) @@
    (4651 :> EF(3793)) @@
    \* except asyncio.CancelledError (467-482)
    (4690 :> BR("mac", 4700, 4710)) @@
    (4700 :> TK("abort", "LORA", 4710)) @@
    (4710 :> BR("spec", 4740, 4820)) @@
    (4740 :> SP("clear_write", 4770, 4770)) @@
    (4770 :> TK("tidy", "", 4790)) @@
    (4790 :> SP("disconnect", 4820, 4820)) @@
    (4820 :> RS("Cancelled")) @@
    \* except Exception (483-484)
    (4840 :> Y("error", "", "", 4880)) @@
    \* finally (485-506)
    (4880 :> BR("spec", 4900, 4940)) @@
    (4900 :> SP("clear_write", 4940, 4940)) @@
    (4940 :> BR("cap", 4960, 5010)) @@
    (4960 :> DU("lora_cw_off", 5010, 4980)) @@
    (4980 :> BR("mac", 4990, 5010)) @@
    (4990 :> TK("abort", "LORA", 5010)) @@
    (5010 :> BR("spec", 5030, 5060)) @@
    (5030 :> SP("disconnect", 5060, 5060)) @@
    (5060 :> Y("done", "ok", "true", 5061)) @@
    (5061 :> EF(0))

run_obw_stream_blocks ==
    << Blk(4630, 4649, 0, 0, 0, 0, 4650),          \* try/finally 462-465
       Blk(4040, 4529, 4560, 4579, 0, 4560, 0),    \* try 402 / except Exception 454
       Blk(3800, 4659, 0, 0, 0, 0, 3793),          \* async with managed_ble 379
       Blk(3370, 4659, 4690, 4849, 4690, 4840, 4880) >>   \* try 335-506

(***************************************************************************)
(* BLE Tx Power: tests_ble.py run_ble_tx_power_stream (90-288).            *)
(* DUT calls are synchronous; dut2 is the session used after Save & Reset. *)
(***************************************************************************)
RECONNECT_ATTEMPTS == 4

run_ble_tx_power_stream_code ==
    (1030 :> CK("config", "ConfigError", 1190, 0)) @@
    (1190 :> VL(1260)) @@
    (1260 :> Y("start", "", "", 1370)) @@
    (1370 :> Y("step", "connectAnalyzer", "start", 1380)) @@
    (1380 :> SP("ensure_analyzer", 1390, 0)) @@
    (1390 :> Y("step", "connectAnalyzer", "done", 1410)) @@
    (1410 :> Y("step", "configureAnalyzer", "start", 1420)) @@
    apply_analyzer_setup(1420, 1490) @@
    (1490 :> Y("step", "configureAnalyzer", "done", 1590)) @@
    (1590 :> SL(1610)) @@
    (1610 :> Y("step", "connectDut", "start", 1620)) @@
    (1620 :> NW("dut", 1621, 0)) @@
    (1621 :> DS("dut", "connect", 1630, 0)) @@
    (1630 :> Y("step", "connectDut", "done", 1650)) @@
    (1650 :> Y("step", "cwOn", "start", 1660)) @@
    (1660 :> Y("step", "readBlePower", "start", 1690)) @@
    (1690 :> DS("dut", "ble_tx_power_get_string", 1700, 1740)) @@
    (1700 :> CK("find_and_return_number", "ValueError", 1701, 1740)) @@
    (1701 :> RD("pw_eq", 1710)) @@                   \* current_power = ...
    (1710 :> Y("step", "readBlePower", "done", 1840)) @@
    (1740 :> DS("dut", "ble_tx_power_get_exact", 1741, 1780)) @@
    (1741 :> RD("pw_eq", 1780)) @@                   \* current_power = int(alt)
    (1780 :> Y("step", "readBlePower", "done", 1840)) @@
    (1840 :> BR("need_change", 1880, 2260)) @@
    (1880 :> DS("dut", "ble_tx_power_set_exact", 1970, 1910)) @@
    (1910 :> DS("dut", "disconnect", 1940, 1940)) @@
    (1940 :> SL(1950)) @@
    (1950 :> NW("dut", 1951, 0)) @@
    (1951 :> DS("dut", "connect", 1960, 0)) @@
    (1960 :> DS("dut", "ble_tx_power_set_exact", 1970, 0)) @@
    (1970 :> Y("step", "cwOn", "done", 1990)) @@
    (1990 :> Y("step", "saveReset", "start", 2000)) @@
    (2000 :> DS("dut", "ble_save_and_reset_exact", 2010, 0)) @@
    (2010 :> Y("step", "saveReset", "done", 2030)) @@
    (2030 :> SL(2060)) @@
    (2060 :> Y("step", "reconnectDut", "start", 2080)) @@
    (2080 :> NW("dut2", 2081, 2210)) @@
    (2081 :> DS("dut2", "connect", 2100, 2210)) @@
    (2100 :> DS("dut2", "ble_tx_power_get_string", 2120, 2170)) @@
    (2120 :> BN(2130, 2170)) @@                      \* rd != power_const
    (2130 :> DS("dut2", "ble_tx_power_set_exact", 2140, 2170)) @@
    (2140 :> SL(2170)) @@
    (2170 :> Y("step", "reconnectDut", "done", 2340)) @@
    (2210 :> Y("step", "reconnectDut", "error", 2220)) @@
    (2220 :> SL(2221)) @@
    (2221 :> LP(RECONNECT_ATTEMPTS, 2060, 2230)) @@
    (2230 :> BR("dut2", 2340, 2240)) @@
    (2240 :> RS("RuntimeError")) @@
    (2260 :> Y("step", "cwOn", "done", 2270)) @@
    (2270 :> Y("step", "saveReset", "start", 2280)) @@
    (2280 :> Y("step", "saveReset", "done", 2290)) @@
    (2290 :> Y("step", "reconnectDut", "start", 2300)) @@
    (2300 :> Y("step", "reconnectDut", "done", 2310)) @@
    (2310 :> ST("same", 1, 2340)) @@                 \* dut2 = dut
    (2340 :> DS("dut2", "_send_tone_stop_best_effort", 2370, 2370)) @@
    (2370 :> Y("step", "toneStart", "start", 2420)) @@
    (2420 :> DS("dut2", "ble_tone_start_best_effort", 2450, 0)) @@
    (2450 :> BN(2460, 2480)) @@                      \* tone_ok
    (2460 :> Y("step", "toneStart", "done", 2520)) @@
    (2480 :> Y("step", "toneStart", "error", 2520)) @@
    (2520 :> SL(2530)) @@
    (2530 :> Y("step", "measure", "start", 2540)) @@
    (2540 :> SP("peak_search", 2550, 0)) @@
    (2550 :> SL(2560)) @@
    (2560 :> SP("get_marker_power", 2570, 0)) @@
    (2570 :> CK("num", "ParseError", 2580, 0)) @@
    (2580 :> Y("step", "measure", "done", 2660)) @@
    (2660 :> Y("result", "", "", 2740)) @@
    \* except asyncio.CancelledError: raise (268-269)
    (2690 :> RS("Cancelled")) @@
    \* except Exception (270-271)
    (2710 :> Y("error", "", "", 2740)) @@
    \* finally (272-288)
    (2740 :> BR("dut2_other", 2750, 2790)) @@
    (2750 :> DS("dut2", "disconnect", 2790, 2790)) @@
    (2790 :> BR("dut", 2800, 2850)) @@
    (2800 :> DS("dut", "disconnect", 2850, 2850)) @@
    (2850 :> Y("step", "close", "done", 2880)) @@
    (2880 :> Y("done", "ok", "true", 2881)) @@
    (2881 :> EF(0))

run_ble_tx_power_stream_blocks ==
    << Blk(1370, 2669, 2690, 2719, 2690, 2710, 2740) >>   \* try 136-288

(***************************************************************************)
(* zoom_and_center (tests_common.py 140-161), inlined at pc base: span,    *)
(* rbw, vbw and peak search failures are raised, the marker-to-center      *)
(* failure is swallowed; a settle delay follows every command.             *)
(***************************************************************************)
zoom_and_center(base, nx) ==
    (base     :> SP("set_span", base + 1, 0)) @@
    (base + 1 :> SL(base + 2)) @@
    (base + 2 :> SP("set_rbw", base + 3, 0)) @@
    (base + 3 :> SL(base + 4)) @@
    (base + 4 :> SP("set_vbw", base + 5, 0)) @@
    (base + 5 :> SL(base + 6)) @@
    (base + 6 :> SP("peak_search", base + 7, 0)) @@
    (base + 7 :> SL(base + 8)) @@
    (base + 8 :> SP("set_marker_to_center_frequency", base + 9, base + 9)) @@
    (base + 9 :> SL(nx))

\* number of zoom passes configured for the frequency-accuracy tests
NumZooms == 2

(***************************************************************************)
(* LoRa Frequency Accuracy: tests_lora.py run_freq_accuracy_stream         *)
(* (173-260).                                                              *)
(***************************************************************************)
run_freq_accuracy_stream_code ==
    (1830 :> CK("config", "ConfigError", 1910, 0)) @@
    (1910 :> Y("start", "", "", 1940)) @@
    (1940 :> Y("step", "connectAnalyzer", "start", 1950)) @@
    (1950 :> SP("ensure_analyzer", 1960, 0)) @@
    (1960 :> Y("step", "connectAnalyzer", "done", 1980)) @@
    (1980 :> Y("step", "configureAnalyzer", "start", 1990)) @@
    apply_analyzer_setup(1990, 2000) @@
    (2000 :> Y("step", "configureAnalyzer", "done", 2020)) @@
    (2020 :> SL(2050)) @@
    (2050 :> Y("step", "connectDut", "start", 2060)) @@
    managed_ble(2060, 2070, 2600) @@
    (2070 :> Y("step", "connectDut", "done", 2090)) @@
    (2090 :> Y("step", "cwOn", "start", 2100)) @@
    (2100 :> DU("lora_cw_on", 2110, 0)) @@
    (2110 :> SL(2120)) @@
    (2120 :> Y("step", "cwOn", "done", 2180)) @@
    \* for i, z in enumerate(zooms, 1) (216-226)
    (2180 :> Y("log", "", "", 2190)) @@
    zoom_and_center(2190, 2260) @@
    (2260 :> LP(NumZooms, 2180, 2290)) @@
    (2290 :> Y("step", "measure", "start", 2300)) @@
    (2300 :> SP("get_marker_frequency", 2310, 0)) @@
    (2310 :> SL(2320)) @@
    (2320 :> SP("get_marker_frequency", 2330, 0)) @@
    (2330 :> CK("num", "ParseError", 2390, 0)) @@
    (2390 :> Y("step", "measure", "done", 2400)) @@
    (2400 :> Y("result", "", "", 2430)) @@
    (2430 :> Y("step", "cwOff", "start", 2450)) @@
    (2450 :> DU("lora_cw_off", 2470, 0)) @@
    (2470 :> Y("step", "cwOff", "done", 2471)) @@
    (2471 :> EF(2063)) @@
    \* except asyncio.CancelledError (249-256)
    (2510 :> BR("mac", 2520, 2530)) @@
    (2520 :> TK("abort", "LORA", 2530)) @@
    (2530 :> BR("spec", 2540, 2560)) @@
    (2540 :> TK("tidy", "", 2550)) @@
    (2550 :> TK("disc", "", 2560)) @@
    (2560 :> RS("Cancelled")) @@
    \* except Exception (257-258)
    (2580 :> Y("error", "", "", 2600)) @@
    \* finally (259-260)
    (2600 :> Y("done", "ok", "true", 2601)) @@
    (2601 :> EF(0))

run_freq_accuracy_stream_blocks ==
    << Blk(2450, 2469, 0, 0, 0, 0, 2470),          \* try/finally 244-247
       Blk(2070, 2479, 0, 0, 0, 0, 2063),          \* async with managed_ble 206
       Blk(1910, 2479, 2510, 2589, 2510, 2580, 2600) >>   \* try 190-260

(***************************************************************************)
(* LTE Frequency Accuracy: tests_lte.py run_lte_frequency_accuracy_stream  *)
(* (552-724).                                                              *)
(***************************************************************************)
run_lte_frequency_accuracy_stream_code ==
    (5650 :> CK("config", "ConfigError", 5780, 0)) @@
    (5780 :> CK("config", "ConfigError", 5790, 0)) @@
    (5790 :> VL(5810)) @@
    (5810 :> Y("start", "", "", 5850)) @@
    (5850 :> Y("step", "connectAnalyzer", "start", 5860)) @@
    (5860 :> SP("ensure_analyzer", 5870, 0)) @@
    (5870 :> Y("step", "connectAnalyzer", "done", 5890)) @@
    (5890 :> Y("step", "configureAnalyzer", "start", 5900)) @@
    apply_analyzer_setup(5900, 5930) @@
    (5930 :> Y("step", "configureAnalyzer", "done", 6020)) @@
    (6020 :> SL(6050)) @@
    (6050 :> Y("step", "connectDut", "start", 6070)) @@
    managed_ble(6070, 6090, 7240) @@
    (6090 :> Y("step", "connectDut", "done", 6120)) @@
    (6120 :> Y("step", "modemOn", "start", 6130)) @@
    (6130 :> DR("lte_modem_on", LTE_RETRY_ATTEMPTS, 6140, 6131)) @@
    (6131 :> SL(6130)) @@
    (6140 :> ST("modem_on_done", 1, 6150)) @@
    (6150 :> Y("step", "modemOn", "done", 6180)) @@
    (6180 :> Y("step", "abortTest", "start", 6200)) @@
    (6200 :> DU("lte_abort_test", 6230, 6230)) @@
    (6230 :> Y("step", "abortTest", "done", 6260)) @@
    (6260 :> Y("step", "cwOn", "start", 6270)) @@
    (6270 :> DR("lte_cw_on", LTE_RETRY_ATTEMPTS, 6320, 6271)) @@
    (6271 :> SL(6270)) @@
    (6320 :> SL(6330)) @@
    (6330 :> ST("cw_on", 1, 6340)) @@
    (6340 :> Y("step", "cwOn", "done", 6400)) @@
    \* for i, z in enumerate(zooms, 1) (638-641)
    (6400 :> Y("log", "", "", 6410)) @@
    zoom_and_center(6410, 6420) @@
    (6420 :> LP(NumZooms, 6400, 6430)) @@
    (6430 :> Y("step", "measure", "start", 6440)) @@
    (6440 :> SP("get_marker_frequency", 6450, 0)) @@
    (6450 :> SL(6460)) @@
    (6460 :> SP("get_marker_frequency", 6470, 0)) @@
    (6470 :> CK("num", "ParseError", 6500, 0)) @@
    (6500 :> Y("step", "measure", "done", 6530)) @@
    (6530 :> BR("modem_on_done", 6540, 6660)) @@
    (6540 :> Y("step", "abortTest", "start", 6560)) @@
    (6560 :> DU("lte_abort_test", 6590, 6590)) @@
    (6590 :> Y("step", "abortTest", "done", 6620)) @@
    (6620 :> Y("step", "cwOff", "start", 6630)) @@
    (6630 :> Y("step", "cwOff", "done", 6660)) @@
    (6660 :> BR("modem_on_done", 6670, 6750)) @@
    (6670 :> Y("step", "modemOff", "start", 6690)) @@
    (6690 :> DU("lte_modem_off", 6720, 6720)) @@
    (6720 :> Y("step", "modemOff", "done", 6750)) @@
    (6750 :> Y("step", "disconnectDut", "start", 6770)) @@
    (6770 :> DU("disconnect", 6800, 6800)) @@
    (6800 :> Y("step", "disconnectDut", "done", 6810)) @@
    (6810 :> ST("cleanup_done", 1, 6850)) @@
    (6850 :> Y("result", "", "", 6073)) @@
    \* inner except Exception (687-713)
    (6890 :> BR("need_abort", 6900, 7130)) @@
    (6900 :> BR("cw_on", 6910, 6990)) @@
    (6910 :> Y("step", "abortTest", "start", 6930)) @@
    (6930 :> DU("lte_abort_test", 6970, 6950)) @@
    (6950 :> BR("mac", 6960, 6970)) @@
    (6960 :> TK("abort", "LTE", 6970)) @@
    (6970 :> Y("step", "abortTest", "done", 6990)) @@
    (6990 :> Y("step", "modemOff", "start", 7010)) @@
    (7010 :> DU("lte_modem_off", 7040, 7040)) @@
    (7040 :> Y("step", "modemOff", "done", 7060)) @@
    (7060 :> Y("step", "disconnectDut", "start", 7080)) @@
    (7080 :> DU("disconnect", 7110, 7110)) @@
    (7110 :> Y("step", "disconnectDut", "done", 7130)) @@
    (7130 :> Y("error", "", "", 7240)) @@
    \* outer except asyncio.CancelledError (715-722)
    (7170 :> BR("modem_on_done", 7180, 7190)) @@
    (7180 :> TK("abort", "LTE", 7190)) @@
    (7190 :> BR("spec", 7200, 7220)) @@
    (7200 :> TK("tidy", "", 7210)) @@
    (7210 :> TK("disc", "", 7220)) @@
    (7220 :> RS("Cancelled")) @@
    \* finally (723-724)
    (7240 :> Y("done", "ok", "true", 7241)) @@
    (7241 :> EF(0))

run_lte_frequency_accuracy_stream_blocks ==
    << Blk(6090, 6859, 0, 0, 0, 0, 6073),          \* async with managed_ble 607
       Blk(6070, 6859, 6890, 7139, 0, 6890, 0),    \* try 606 / except Exception 687
       Blk(5780, 7139, 7170, 7229, 7170, 0, 7240) >>   \* try 576 / except 715 / finally 723

(***************************************************************************)
(* BLE Frequency Accuracy: tests_ble.py run_ble_frequency_accuracy_stream  *)
(* (293-455).  Every zoom pass re-applies the analyzer setup.              *)
(***************************************************************************)
run_ble_frequency_accuracy_stream_code ==
    (3060 :> CK("config", "ConfigError", 3220, 0)) @@
    (3220 :> VL(3320)) @@
    (3320 :> Y("start", "", "", 3440)) @@
    (3440 :> Y("step", "connectAnalyzer", "start", 3450)) @@
    (3450 :> SP("ensure_analyzer", 3460, 0)) @@
    (3460 :> Y("step", "connectAnalyzer", "done", 3470)) @@
    (3470 :> Y("log", "", "", 3500)) @@
    (3500 :> Y("step", "configureAnalyzer", "start", 3510)) @@
    apply_analyzer_setup(3510, 3570) @@
    (3570 :> Y("step", "configureAnalyzer", "done", 3580)) @@
    (3580 :> SL(3590)) @@
    (3590 :> BN(3600, 3640)) @@                      \* if a_set
    (3600 :> Y("log", "", "", 3640)) @@
    (3640 :> Y("step", "connectDut", "start", 3650)) @@
    (3650 :> NW("dut", 3651, 0)) @@
    (3651 :> DS("dut", "connect", 3660, 0)) @@
    (3660 :> Y("step", "connectDut", "done", 3670)) @@
    (3670 :> Y("log", "", "", 3700)) @@
    (3700 :> Y("step", "cwOn", "start", 3740)) @@
    (3740 :> DS("dut", "ble_tone_start_best_effort", 3790, 0)) @@
    (3790 :> Y("step", "cwOn", "done", 3800)) @@
    (3800 :> Y("log", "", "", 3890)) @@
    \* for i, z in enumerate(zooms, 1) (384-408)
    (3890 :> Y("log", "", "", 3920)) @@
    apply_analyzer_setup(3920, 4000) @@
    (4000 :> SL(4030)) @@
    (4030 :> SP("peak_search", 4050, 0)) @@
    (4050 :> SP("marker_to_center", 4051, 4051)) @@
    (4051 :> LP(NumZooms, 3890, 4110)) @@
    (4110 :> SL(4140)) @@
    (4140 :> Y("step", "measure", "start", 4150)) @@
    (4150 :> SP("get_marker_frequency", 4160, 0)) @@
    (4160 :> CK("num", "ParseError", 4260, 0)) @@
    (4260 :> Y("step", "measure", "done", 4270)) @@
    (4270 :> Y("log", "", "", 4320)) @@
    (4320 :> Y("log", "", "", 4380)) @@
    (4380 :> Y("result", "", "", 4460)) @@
    \* except asyncio.CancelledError: raise (440-441)
    (4410 :> RS("Cancelled")) @@
    \* except Exception (442-443)
    (4430 :> Y("error", "", "", 4460)) @@
    \* finally (444-455)
    (4460 :> BR("dut", 4470, 4520)) @@
    (4470 :> DS("dut", "disconnect", 4480, 4520)) @@
    (4480 :> Y("log", "", "", 4520)) @@
    (4520 :> Y("step", "close", "done", 4550)) @@
    (4550 :> Y("done", "ok", "true", 4551)) @@
    (4551 :> EF(0))

run_ble_frequency_accuracy_stream_blocks ==
    << Blk(3440, 4389, 4410, 4439, 4410, 4430, 4460) >>   \* try 342-455

(***************************************************************************)
(* The orchestrators of this model and their code.                         *)
(***************************************************************************)
Variants == {"LoRaTx", "LoRaFa", "LoRaObw", "LteTx", "LteFa", "BleTx", "BleFa"}

Code(v) ==
    CASE v = "LoRaTx" -> run_tx_power_stream_code
      [] v = "LteTx" -> run_lte_tx_power_stream_code
      [] v = "LoRaObw" -> run_obw_stream_code
      [] v = "BleTx" -> run_ble_tx_power_stream_code
      [] v = "LoRaFa" -> run_freq_accuracy_stream_code
      [] v = "LteFa" -> run_lte_frequency_accuracy_stream_code
      [] v = "BleFa" -> run_ble_frequency_accuracy_stream_code

Blocks(v) ==
    CASE v = "LoRaTx" -> run_tx_power_stream_blocks
      [] v = "LteTx" -> run_lte_tx_power_stream_blocks
      [] v = "LoRaObw" -> run_obw_stream_blocks
      [] v = "BleTx" -> run_ble_tx_power_stream_blocks
      [] v = "LoRaFa" -> run_freq_accuracy_stream_blocks
      [] v = "LteFa" -> run_lte_frequency_accuracy_stream_blocks
      [] v = "BleFa" -> run_ble_frequency_accuracy_stream_blocks

LoRaVariants == {"LoRaTx", "LoRaFa", "LoRaObw"}

LteVariants == {"LteTx", "LteFa"}

\* first statement of the generator body
Entry(v) ==
    CASE v = "LoRaTx" -> 580
      [] v = "LteTx" -> 1220
      [] v = "LoRaObw" -> 3300
      [] v = "BleTx" -> 1030
      [] v = "LoRaFa" -> 1830
      [] v = "LteFa" -> 5650
      [] v = "BleFa" -> 3060

\* Orchestrators that validate caller parameters (LoRa ones take any integers)
Validates(v) == v \in {"LteTx", "LteFa", "BleTx", "BleFa"}

I == Code(variant)[gpc]

AwaitOps == {"spec", "dut", "dutretry", "sleep"}

(***************************************************************************)
(* Python exception routing: the innermost enclosing try whose except      *)
(* clause matches, or whose finally must run; none: the generator ends.    *)
(***************************************************************************)
NoRoute == [pc |-> 0, pend |-> "none"]

Match(b, pc, e) ==
    IF pc >= b.lo /\ pc <= b.hi
    THEN IF e = "Cancelled" /\ b.onCancel # 0 THEN [pc |-> b.onCancel, pend |-> "none"]
         ELSE IF e \in ExcClass /\ b.onExc # 0 THEN [pc |-> b.onExc, pend |-> "none"]
         ELSE IF b.fin # 0 THEN [pc |-> b.fin, pend |-> e]
         ELSE NoRoute
    ELSE IF pc >= b.hlo /\ pc <= b.hhi /\ b.fin # 0 THEN [pc |-> b.fin, pend |-> e]
    ELSE NoRoute

Route(v, pc, e) ==
    LET bs == Blocks(v)
        hit == {i \in 1..Len(bs) : Match(bs[i], pc, e) # NoRoute}
    IN IF hit = {} THEN [pc |-> Closed, pend |-> e]
       ELSE Match(bs[CHOOSE i \in hit : \A j \in hit : i <= j], pc, e)

(***************************************************************************)
(* The consumer: tests_routes.py _sse.event_source (45-70).                *)
(*   c48  async for evt in gen            (c48w: blocked in __anext__)     *)
(*   c50  await request.is_disconnected()                                  *)
(*   c52  await gen.athrow(CancelledError()), except Exception: pass; break*)
(*   c57  yield {...} to the client       (c57s: suspended there)          *)
(*   c60  except CancelledError: await gen.athrow(CancelledError())        *)
(*   c63  raise                                                            *)
(*   c65  except Exception: yield error   (c65s: suspended there)          *)
(*   c68  finally: await gen.aclose(), except Exception: pass              *)
(***************************************************************************)
Fin(p) == IF p = "none" THEN "ok" ELSE p

\* the generator yields a value to the call the consumer is blocked in
OnYield(c) ==
    CASE c = "c48w" -> "c50"
      [] c = "c52w" -> "c68"      \* value dropped, break
      [] c = "c60w" -> "c63"      \* value dropped
      [] c = "c68w" -> "end"      \* RuntimeError(ignored GeneratorExit), swallowed

\* the generator finishes (kind "stop": StopAsyncIteration) inside that call
OnEnd(c, kind) ==
    CASE c = "c48w" -> IF kind = "Cancelled" THEN "c60"
                       ELSE IF kind \in ExcClass THEN "c65" ELSE "c68"
      [] c = "c52w" -> IF kind = "Cancelled" THEN "c60" ELSE "c68"
      [] c = "c60w" -> IF kind = "Cancelled" THEN "c68" ELSE "c63"
      [] c = "c68w" -> "end"

(***************************************************************************)
(* Control transfers of the generator frame.  `site` is the consumer call  *)
(* the generator is running in.                                            *)
(***************************************************************************)
GotoAt(site, n, p) ==
    /\ gpc' = n /\ pend' = p /\ gst' = "run" /\ cpc' = site
    /\ UNCHANGED <<gend, cpend, cend>>

FinishAt(site, kind) ==
    /\ gpc' = Closed
    /\ gst' = "closed"
    /\ gend' = kind
    /\ pend' = "none"
    /\ cpc' = OnEnd(site, kind)
    /\ cpend' = IF kind = "Cancelled" /\ site \in {"c60w", "c68w"} THEN "Cancelled" ELSE cpend
    /\ cend' = IF site = "c68w"
               THEN (IF kind = "Cancelled" THEN "Cancelled" ELSE Fin(cpend))
               ELSE cend

ThrowAt(site, e) ==
    LET r == Route(variant, gpc, e)
    IN IF r.pc = Closed
       THEN FinishAt(site, IF e = "Return" THEN "stop" ELSE e)
       ELSE GotoAt(site, r.pc, r.pend)

(***************************************************************************)
(* DUTBLE methods (dut_ble_service.py 76-155) on a session whose           *)
(* _connected flag is conn, and their effect on the DUT transmitter.       *)
(***************************************************************************)
\* methods the orchestrators call that DUTBLE does not define
MissingMethods == {"lora_modulated_cw_on"}

AutoConnect == {"connect", "lora_cw_on", "lte_modem_on", "lte_cw_on"}

\* BLE methods raise RuntimeError("BLE device not connected") (156-388); the LTE
\* abort / modem-off commands go straight to the device handle
NeedsLink == {"lte_abort_test", "lte_modem_off", "ble_tx_power_get_string",
              "ble_tx_power_get_exact", "ble_tx_power_set_exact",
              "ble_save_and_reset_exact", "ble_tone_start_best_effort"}

\* methods that swallow every failure themselves
NeverRaises == {"_send_tone_stop_best_effort"}

\* a call that returns without touching the device
NoOp(m, conn) ==
    \/ m \in {"disconnect", "lora_cw_off"} /\ ~conn
    \/ m = "connect" /\ conn

\* the _connected checks of the BLE methods left out
DutCanOk_unchecked(m, conn) == m \notin MissingMethods

DutCanOk(m, conn) == m \notin MissingMethods /\ (m \in NeedsLink => conn)

DutCanFail(m, conn) == ~NoOp(m, conn) /\ m \notin NeverRaises

ConnAfter(m, conn, ok) ==
    IF m = "disconnect" THEN FALSE
    ELSE IF ok /\ m \in AutoConnect THEN TRUE
    ELSE IF ok /\ m = "ble_save_and_reset_exact" THEN FALSE
    ELSE conn

\* commands that start / stop the DUT transmitter
ArmCmds == {"lora_cw_on", "lte_cw_on", "ble_tone_start_best_effort"}

DisarmCmds == {"lora_cw_off", "lte_abort_test", "lte_modem_off"}

ArmedAfter(m, conn, armed, ok) ==
    IF ~ok \/ NoOp(m, conn) THEN armed
    ELSE IF m \in ArmCmds THEN TRUE
    ELSE IF m \in DisarmCmds THEN FALSE
    ELSE armed

\* SpectrumAnalyzer: every command needs the socket (SpectrumAnalyzer.py 86-141)
\* methods the orchestrators look up that SpectrumAnalyzer does not define:
\* the attribute lookup fails before anything is sent
MissingSpecMethods == {"marker_to_center"}

SpecCanOk(m) ==
    /\ m \notin MissingSpecMethods
    /\ (m \in {"ensure_analyzer", "disconnect"} \/ hw.anConn)

AnConnAfter(m, ok) ==
    IF m = "disconnect" THEN FALSE
    ELSE IF m = "ensure_analyzer" /\ ok THEN TRUE
    ELSE hw.anConn

\* the set commands of apply_analyzer_setup (tests_common.py 108-136)
SetCmds ==
    {"set_center_frequency", "set_span", "set_rbw", "set_vbw",
     "set_ref_level", "set_ref_level_offset", "set_peak_detector"}

\* hw.refused: the settings whose last set command the analyzer refused
\* (error reply or timeout of spec_call) since the last yielded event
RefusedAfter(m, ok) ==
    IF m \notin SetCmds THEN hw.refused
    ELSE IF ok THEN hw.refused \ {m}
    ELSE hw.refused \cup {m}

\* a call the run itself awaits; live: it reaches the device (not a no-op)
Call(t, m, live) == [t |-> t, m |-> m, live |-> live]

\* need_change with the comparison left out: the power is always set again
need_change_always == TRUE

\* tests_ble.py 184: current_power is None or differs from the requested power
need_change == ~loc.pw_eq

\* the conditions with the modem_on_done guards left out
CondNoModemGuard(c) ==
    CASE c = "mac" -> TRUE
      [] c = "spec" -> loc.spec
      [] c = "dut" -> loc.dut
      [] c = "cap" -> loc.cap
      [] c = "dut2" -> loc.dut2
      [] c = "dut2_other" -> loc.dut2 /\ ~loc.same
      [] c = "modem_on_done" -> TRUE
      [] c = "cw_on" -> loc.cw_on
      [] c = "need_abort" -> ~loc.cleanup_done
      [] c = "need_change" -> need_change
      [] OTHER -> FALSE

Cond(c) ==
    CASE c = "mac" -> TRUE                       \* routes reject an empty mac
      [] c = "spec" -> loc.spec
      [] c = "dut" -> loc.dut
      [] c = "cap" -> loc.cap
      [] c = "dut2" -> loc.dut2
      [] c = "dut2_other" -> loc.dut2 /\ ~loc.same
      [] c = "modem_on_done" -> loc.modem_on_done
      [] c = "cw_on" -> loc.cw_on
      [] c = "need_abort" -> loc.modem_on_done /\ ~loc.cleanup_done
      [] c = "need_change" -> need_change
      [] OTHER -> FALSE

env == <<variant, valid, sent, withdrawn, run2, analyzer, calc, pool>>

(***************************************************************************)
(* Generator steps, one per instruction kind.                              *)
(***************************************************************************)
Suspend ==
    /\ gst' = "susp"
    /\ cpc' = OnYield(cpc)
    /\ cend' = IF cpc = "c68w" THEN Fin(cpend) ELSE cend
    /\ UNCHANGED <<gpc, pend, gend, cpend>>

GenYield ==
    /\ gst = "run" /\ I.op = "yield"
    /\ events' = Append(events, [type |-> I.a, key |-> I.b, status |-> I.c])
    /\ hw' = [hw EXCEPT !.refused = {}]
    /\ Suspend
    /\ UNCHANGED <<env, loc, fgCalls, cancAt, delivered, bg>>

GenSpecOk ==
    /\ gst = "run" /\ I.op = "spec" /\ SpecCanOk(I.b)
    /\ fgCalls' = Append(fgCalls, Call("spec", I.b, TRUE))
    /\ hw' = [hw EXCEPT !.anConn = AnConnAfter(I.b, TRUE),
                        !.refused = RefusedAfter(I.b, TRUE)]
    /\ loc' = IF I.b = "ensure_analyzer" THEN [loc EXCEPT !.spec = TRUE] ELSE loc
    /\ GotoAt(cpc, I.nxt, pend)
    /\ UNCHANGED <<env, events, cancAt, delivered, bg>>

GenSpecFail ==
    /\ gst = "run" /\ I.op = "spec"
    /\ fgCalls' = Append(fgCalls, Call("spec", I.b, I.b \notin MissingSpecMethods))
    /\ hw' = [hw EXCEPT !.anConn = AnConnAfter(I.b, FALSE),
                        !.refused = RefusedAfter(I.b, FALSE)]
    /\ IF I.alt # 0 THEN GotoAt(cpc, I.alt, pend) ELSE ThrowAt(cpc, "HwFault")
    /\ UNCHANGED <<env, loc, events, cancAt, delivered, bg>>

GenDutOk ==
    /\ gst = "run" /\ I.op \in {"dut", "dutretry"} /\ DutCanOk(I.b, loc.conn)
    /\ fgCalls' = Append(fgCalls, Call("dut", I.b, ~NoOp(I.b, loc.conn)))
    /\ hw' = [hw EXCEPT !.armed = ArmedAfter(I.b, loc.conn, hw.armed, TRUE),
                        !.armedAt = IF I.b \in ArmCmds THEN Len(fgCalls) + 1 ELSE @,
                        !.modemOnAt = IF I.b = "lte_modem_on" /\ @ = 0
                                      THEN Len(fgCalls) + 1 ELSE @]
    /\ loc' = [loc EXCEPT !.conn = ConnAfter(I.b, loc.conn, TRUE), !.tries = 0]
    /\ GotoAt(cpc, I.nxt, pend)
    /\ UNCHANGED <<env, events, cancAt, delivered, bg>>

GenDutFail ==
    /\ gst = "run" /\ I.op = "dut" /\ DutCanFail(I.b, loc.conn)
    /\ fgCalls' = Append(fgCalls, Call("dut", I.b, TRUE))
    /\ loc' = [loc EXCEPT !.conn = ConnAfter(I.b, loc.conn, FALSE)]
    /\ IF I.alt # 0 THEN GotoAt(cpc, I.alt, pend)
       ELSE ThrowAt(cpc, IF I.b \in MissingMethods THEN "RuntimeError" ELSE "HwFault")
    /\ UNCHANGED <<env, events, cancAt, hw, delivered, bg>>

\* a failed attempt of a retried call: sleep and retry, or give up and raise
GenDutRetry ==
    /\ gst = "run" /\ I.op = "dutretry" /\ DutCanFail(I.b, loc.conn)
    /\ fgCalls' = Append(fgCalls, Call("dut", I.b, TRUE))
    /\ IF loc.tries + 1 < I.n
       THEN /\ loc' = [loc EXCEPT !.tries = loc.tries + 1]
            /\ GotoAt(cpc, I.alt, pend)
       ELSE /\ loc' = [loc EXCEPT !.tries = 0]
            /\ ThrowAt(cpc, "HwFault")
    /\ UNCHANGED <<env, events, cancAt, hw, delivered, bg>>

GenNew ==
    /\ gst = "run" /\ I.op = "new"
    /\ \/ /\ loc' = IF I.a = "dut2"
                    THEN [loc EXCEPT !.dut2 = TRUE, !.conn2 = FALSE, !.same = FALSE]
                    ELSE [loc EXCEPT !.dut = TRUE, !.conn = FALSE]
          /\ GotoAt(cpc, I.nxt, pend)
       \/ /\ loc' = loc
          /\ IF I.alt # 0 THEN GotoAt(cpc, I.alt, pend) ELSE ThrowAt(cpc, "RuntimeError")
    /\ UNCHANGED <<env, events, fgCalls, cancAt, hw, delivered, bg>>

\* the session a synchronous call goes to, and its _connected flag
OnDut2(sess) == sess = "dut2" /\ ~loc.same

SessConn(sess) == IF OnDut2(sess) THEN loc.conn2 ELSE loc.conn

GenDutSyncOk ==
    /\ gst = "run" /\ I.op = "dutsync" /\ DutCanOk(I.b, SessConn(I.a))
    /\ fgCalls' = Append(fgCalls, Call("dut", I.b, ~NoOp(I.b, SessConn(I.a))))
    /\ hw' = [hw EXCEPT !.armed = ArmedAfter(I.b, SessConn(I.a), hw.armed, TRUE),
                        !.armedAt = IF I.b \in ArmCmds THEN Len(fgCalls) + 1 ELSE @]
    /\ loc' = IF OnDut2(I.a)
              THEN [loc EXCEPT !.conn2 = ConnAfter(I.b, loc.conn2, TRUE)]
              ELSE [loc EXCEPT !.conn = ConnAfter(I.b, loc.conn, TRUE)]
    /\ GotoAt(cpc, I.nxt, pend)
    /\ UNCHANGED <<env, events, cancAt, delivered, bg>>

GenDutSyncFail ==
    /\ gst = "run" /\ I.op = "dutsync" /\ DutCanFail(I.b, SessConn(I.a))
    /\ fgCalls' = Append(fgCalls, Call("dut", I.b, TRUE))
    /\ loc' = IF OnDut2(I.a)
              THEN [loc EXCEPT !.conn2 = ConnAfter(I.b, loc.conn2, FALSE)]
              ELSE [loc EXCEPT !.conn = ConnAfter(I.b, loc.conn, FALSE)]
    /\ IF I.alt # 0 THEN GotoAt(cpc, I.alt, pend)
       ELSE ThrowAt(cpc, IF SessConn(I.a) THEN "HwFault" ELSE "RuntimeError")
    /\ UNCHANGED <<env, events, cancAt, hw, delivered, bg>>

\* the synchronous call is made on the event loop thread with no wait_for
\* around it (tests_common.py 41-48 is not used): when the DUT port never
\* answers, the call never returns and nothing else is scheduled
GenDutSyncHang ==
    /\ gst = "run" /\ I.op = "dutsync"
    /\ fgCalls' = Append(fgCalls, Call("dut", I.b, TRUE))
    /\ gst' = "hung"
    /\ UNCHANGED <<env, gpc, pend, gend, cpc, cpend, cend, loc, events, cancAt, hw,
                   delivered, bg>>

GenEither ==
    /\ gst = "run" /\ I.op = "either"
    /\ \E b \in BOOLEAN : GotoAt(cpc, IF b THEN I.nxt ELSE I.alt, pend)
    /\ UNCHANGED <<env, loc, events, fgCalls, cancAt, hw, delivered, bg>>

GenLoop ==
    /\ gst = "run" /\ I.op = "loop"
    /\ IF loc.tries + 1 < I.n
       THEN loc' = [loc EXCEPT !.tries = loc.tries + 1] /\ GotoAt(cpc, I.nxt, pend)
       ELSE loc' = [loc EXCEPT !.tries = 0] /\ GotoAt(cpc, I.alt, pend)
    /\ UNCHANGED <<env, events, fgCalls, cancAt, hw, delivered, bg>>

GenSleep ==
    /\ gst = "run" /\ I.op = "sleep"
    /\ GotoAt(cpc, I.nxt, pend)
    /\ UNCHANGED <<env, loc, events, fgCalls, cancAt, hw, delivered, bg>>

GenSet ==
    /\ gst = "run" /\ I.op = "set"
    /\ loc' = [loc EXCEPT ![I.a] = (I.n = 1)]
    /\ GotoAt(cpc, I.nxt, pend)
    /\ UNCHANGED <<env, events, fgCalls, cancAt, hw, delivered, bg>>

GenRead ==
    /\ gst = "run" /\ I.op = "read"
    /\ \E b \in BOOLEAN : loc' = [loc EXCEPT ![I.a] = b]
    /\ GotoAt(cpc, I.nxt, pend)
    /\ UNCHANGED <<env, events, fgCalls, cancAt, hw, delivered, bg>>

GenBranch ==
    /\ gst = "run" /\ I.op = "branch"
    /\ GotoAt(cpc, IF Cond(I.a) THEN I.nxt ELSE I.alt, pend)
    /\ UNCHANGED <<env, loc, events, fgCalls, cancAt, hw, delivered, bg>>

GenTask ==
    /\ gst = "run" /\ I.op = "task"
    /\ bgAbort' = IF I.a = "abort"
                  THEN Append(bgAbort, [pc |-> "new", proto |-> I.b, conn |-> FALSE,
                                        tried |-> FALSE])
                  ELSE bgAbort
    /\ bgTidy' = IF I.a = "tidy" THEN "peak" ELSE bgTidy
    /\ bgDisc' = IF I.a = "disc" THEN "run" ELSE bgDisc
    /\ GotoAt(cpc, I.nxt, pend)
    /\ UNCHANGED <<env, loc, events, fgCalls, cancAt, hw, delivered>>

GenRaise ==
    /\ gst = "run" /\ I.op = "raise"
    /\ ThrowAt(cpc, I.a)
    /\ UNCHANGED <<env, loc, events, fgCalls, cancAt, hw, delivered, bg>>

GenEndFin ==
    /\ gst = "run" /\ I.op = "endfin"
    /\ IF pend # "none" THEN ThrowAt(cpc, pend)
       ELSE IF I.nxt = 0 THEN FinishAt(cpc, "stop")
       ELSE GotoAt(cpc, I.nxt, pend)
    /\ UNCHANGED <<env, loc, events, fgCalls, cancAt, hw, delivered, bg>>

GenChk ==
    /\ gst = "run" /\ I.op = "chk"
    /\ \/ GotoAt(cpc, I.nxt, pend)
       \/ IF I.alt # 0 THEN GotoAt(cpc, I.alt, pend) ELSE ThrowAt(cpc, I.b)
    /\ UNCHANGED <<env, loc, events, fgCalls, cancAt, hw, delivered, bg>>

GenValidate ==
    /\ gst = "run" /\ I.op = "validate"
    /\ IF valid THEN GotoAt(cpc, I.nxt, pend) ELSE ThrowAt(cpc, "ValueError")
    /\ UNCHANGED <<env, loc, events, fgCalls, cancAt, hw, delivered, bg>>

\* the framework cancels the streaming task while the generator awaits:
\* CancelledError is raised at that await; a hardware call already handed to
\* its worker thread may still take effect on the DUT
GenCancelled ==
    /\ gst = "run" /\ I.op \in AwaitOps
    /\ withdrawn /\ ~delivered
    /\ delivered' = TRUE
    /\ cancAt' = (IF cancAt = 0 THEN gpc ELSE cancAt)
    /\ fgCalls' = IF I.op = "sleep" THEN fgCalls
                  ELSE Append(fgCalls, Call(I.a, I.b, I.op = "spec" \/ ~NoOp(I.b, loc.conn)))
    /\ \E eff \in BOOLEAN :
          hw' = IF I.op \in {"dut", "dutretry"} /\ eff /\ DutCanOk(I.b, loc.conn)
                THEN [hw EXCEPT !.armed = ArmedAfter(I.b, loc.conn, hw.armed, TRUE)]
                ELSE hw
    /\ ThrowAt(cpc, "Cancelled")
    /\ UNCHANGED <<env, loc, events, bg>>

(***************************************************************************)
(* Consumer steps (tests_routes.py 45-70) and the client / framework.      *)
(***************************************************************************)
ConsNext ==
    /\ cpc = "c48" /\ gst \in {"new", "susp"}
    /\ gpc' = IF gst = "susp" THEN I.nxt ELSE gpc
    /\ gst' = "run"
    /\ cpc' = "c48w"
    /\ UNCHANGED <<env, pend, gend, cpend, cend, loc, events, fgCalls, cancAt, hw,
                   delivered, bg>>

ConsCheck ==
    /\ cpc = "c50"
    /\ cpc' = IF withdrawn THEN "c52" ELSE "c57"
    /\ UNCHANGED <<env, gpc, pend, gend, gst, cpend, cend, loc, events, fgCalls,
                   cancAt, hw, delivered, bg>>

\* cancellation of the streaming task while it awaits request.is_disconnected()
ConsCancelled ==
    /\ cpc = "c50" /\ withdrawn /\ ~delivered
    /\ delivered' = TRUE
    /\ cpc' = "c60"
    /\ UNCHANGED <<env, gpc, pend, gend, gst, cpend, cend, loc, events, fgCalls,
                   cancAt, hw, bg>>

ConsAthrow ==
    /\ cpc \in {"c52", "c60"}
    /\ LET site == IF cpc = "c52" THEN "c52w" ELSE "c60w"
       IN IF gst = "susp"
          THEN cancAt' = (IF cancAt = 0 THEN gpc ELSE cancAt) /\ ThrowAt(site, "Cancelled")
          ELSE /\ cpc' = OnYield(site)
               /\ UNCHANGED <<gpc, pend, gend, gst, cpend, cend, cancAt>>
    /\ UNCHANGED <<env, loc, events, fgCalls, hw, delivered, bg>>

ConsSend ==
    /\ cpc = "c57"
    /\ sent' = Append(sent, events[Len(events)].type)
    /\ cpc' = "c57s"
    /\ UNCHANGED <<variant, valid, withdrawn, run2, analyzer, calc, pool, gpc, pend, gend, gst, cpend, cend,
                   loc, events, fgCalls, cancAt, hw, delivered, bg>>

ConsResume ==
    /\ cpc \in {"c57s", "c65s"}
    /\ cpc' = IF cpc = "c57s" THEN "c48" ELSE "c68"
    /\ UNCHANGED <<env, gpc, pend, gend, gst, cpend, cend, loc, events, fgCalls,
                   cancAt, hw, delivered, bg>>

ConsRaise ==
    /\ cpc = "c63"
    /\ cpend' = "Cancelled"
    /\ cpc' = "c68"
    /\ UNCHANGED <<env, gpc, pend, gend, gst, cend, loc, events, fgCalls,
                   cancAt, hw, delivered, bg>>

ConsErr ==
    /\ cpc = "c65"
    /\ sent' = Append(sent, "error")
    /\ cpc' = "c65s"
    /\ UNCHANGED <<variant, valid, withdrawn, run2, analyzer, calc, pool, gpc, pend, gend, gst, cpend, cend,
                   loc, events, fgCalls, cancAt, hw, delivered, bg>>

ConsClose ==
    /\ cpc = "c68"
    /\ IF gst = "susp"
       THEN ThrowAt("c68w", "GenExit")
       ELSE /\ cpc' = "end"
            /\ cend' = Fin(cpend)
            /\ UNCHANGED <<gpc, pend, gend, gst, cpend>>
    /\ UNCHANGED <<env, loc, events, fgCalls, cancAt, hw, delivered, bg>>

\* the framework closes the suspended response generator of a client that
\* has gone: GeneratorExit at its yield, only the finally clause runs
FrameworkClose ==
    /\ cpc \in {"c57s", "c65s"} /\ withdrawn
    /\ cpend' = "GenExit"
    /\ cpc' = "c68"
    /\ UNCHANGED <<env, gpc, pend, gend, gst, cend, loc, events, fgCalls,
                   cancAt, hw, delivered, bg>>

ClientDisconnect ==
    /\ ~withdrawn /\ cend = "none"
    /\ withdrawn' = TRUE
    /\ UNCHANGED <<variant, valid, sent, run2, analyzer, calc, pool, ctl, loc, events, fgCalls, cancAt, hw,
                   delivered, bg>>

(***************************************************************************)
(* Background cleanup tasks.  They run on the same event loop, so only     *)
(* while the streaming task is suspended: the generator in an await, or    *)
(* the consumer in its own await or yield, or finished.                    *)
(***************************************************************************)
BgMayRun ==
    IF gst = "run" THEN I.op \in AwaitOps
    ELSE cpc \in {"c50", "c57s", "c65s", "end"}

\* str.upper() on the protocol names the orchestrators pass
Upper(p) ==
    CASE p = "LoRa" -> "LORA"
      [] p = "lora" -> "LORA"
      [] p = "Lte" -> "LTE"
      [] OTHER -> p

\* background_abort_ble (tests_common.py 183-210): the disarm command chosen
DisarmCmd(proto) ==
    IF Upper(proto) = "LORA" THEN "lora_cw_off"
    ELSE IF Upper(proto) = "LTE" THEN "lte_abort_test"
    ELSE "none"

\* line 190: DUTBLE(mac), outside the try
BgAbortNew ==
    /\ BgMayRun
    /\ \E i \in 1..Len(bgAbort) :
          /\ bgAbort[i].pc = "new"
          /\ \E ok \in BOOLEAN :
                bgAbort' = [bgAbort EXCEPT ![i].pc = IF ok THEN "connect" ELSE "crashed"]
    /\ UNCHANGED <<env, ctl, loc, events, fgCalls, cancAt, hw, delivered, bgTidy, bgDisc>>

\* lines 192-195: connect; on failure return
BgAbortConnect ==
    /\ BgMayRun
    /\ \E i \in 1..Len(bgAbort) :
          /\ bgAbort[i].pc = "connect"
          /\ \E ok \in BOOLEAN :
                bgAbort' = [bgAbort EXCEPT ![i].pc = IF ok THEN "cmd" ELSE "done",
                                           ![i].conn = ok]
    /\ UNCHANGED <<env, ctl, loc, events, fgCalls, cancAt, hw, delivered, bgTidy, bgDisc>>

\* lines 197-203: the disarm command, failure swallowed
BgAbortCmd ==
    /\ BgMayRun
    /\ \E i \in 1..Len(bgAbort) :
          /\ bgAbort[i].pc = "cmd"
          /\ LET m == DisarmCmd(bgAbort[i].proto)
             IN \E ok \in BOOLEAN :
                  /\ bgAbort' = [bgAbort EXCEPT ![i].pc = "disc",
                                                ![i].tried = (m # "none")]
                  /\ hw' = IF m = "none" THEN hw
                           ELSE [hw EXCEPT !.armed = ArmedAfter(m, TRUE, hw.armed, ok)]
    /\ UNCHANGED <<env, ctl, loc, events, fgCalls, cancAt, delivered, bgTidy, bgDisc>>

\* lines 204-208: disconnect, failure swallowed
BgAbortDisconnect ==
    /\ BgMayRun
    /\ \E i \in 1..Len(bgAbort) :
          /\ bgAbort[i].pc = "disc"
          /\ bgAbort' = [bgAbort EXCEPT ![i].pc = "done", ![i].conn = FALSE]
    /\ UNCHANGED <<env, ctl, loc, events, fgCalls, cancAt, hw, delivered, bgTidy, bgDisc>>

\* background_tidy_spectrum (tests_common.py 212-222): everything swallowed
BgTidy ==
    /\ BgMayRun
    /\ bgTidy = "peak"
    /\ bgTidy' = "done"
    /\ UNCHANGED <<env, ctl, loc, events, fgCalls, cancAt, hw, delivered, bgAbort, bgDisc>>

\* create_task(spec_call(spec.disconnect, timeout=CLOSE_SPEC_TIMEOUT)):
\* a bare task, its exception or timeout is nobody's to handle
BgDisc ==
    /\ BgMayRun
    /\ bgDisc = "run"
    /\ \E ok \in BOOLEAN : bgDisc' = IF ok THEN "done" ELSE "crashed"
    /\ hw' = [hw EXCEPT !.anConn = FALSE]
    /\ UNCHANGED <<env, ctl, loc, events, fgCalls, cancAt, delivered, bgAbort, bgTidy>>

(***************************************************************************)
(* One streaming run served through _sse.                                  *)
(***************************************************************************)
Init ==
    /\ variant \in Variants
    /\ valid \in (IF Validates(variant) THEN BOOLEAN ELSE {TRUE})
    /\ gpc = Entry(variant)
    /\ pend = "none"
    /\ gend = "none"
    /\ gst = "new"
    /\ loc = [spec |-> FALSE, dut |-> FALSE, conn |-> FALSE, tries |-> 0,
              modem_on_done |-> FALSE, cw_on |-> FALSE, cleanup_done |-> FALSE,
              cap |-> FALSE, dut2 |-> FALSE, conn2 |-> FALSE, same |-> FALSE,
              pw_eq |-> FALSE]
    /\ events = << >>
    /\ fgCalls = << >>
    /\ cancAt = 0
    /\ hw = [anConn |-> FALSE, armed |-> FALSE, armedAt |-> 0, modemOnAt |-> 0,
             refused |-> {}]
    /\ cpc = "c48"
    /\ cpend = "none"
    /\ cend = "none"
    /\ sent = << >>
    /\ withdrawn = FALSE
    /\ delivered = FALSE
    /\ bgAbort = << >>
    /\ bgTidy = "none"
    /\ bgDisc = "none"
    /\ run2 = << >>
    /\ analyzer = << >>
    /\ calc = << >>
    /\ pool = << >>

Next ==
    \/ GenYield \/ GenSpecOk \/ GenSpecFail \/ GenDutOk \/ GenDutFail \/ GenDutRetry
    \/ GenNew \/ GenSleep \/ GenSet \/ GenBranch \/ GenTask \/ GenRaise \/ GenEndFin
    \/ GenChk \/ GenValidate \/ GenCancelled
    \/ GenDutSyncOk \/ GenDutSyncFail \/ GenDutSyncHang \/ GenEither \/ GenLoop
    \/ GenRead
    \/ ConsNext \/ ConsCheck \/ ConsCancelled \/ ConsAthrow \/ ConsSend \/ ConsResume
    \/ ConsRaise \/ ConsErr \/ ConsClose \/ FrameworkClose \/ ClientDisconnect
    \/ BgAbortNew \/ BgAbortConnect \/ BgAbortCmd \/ BgAbortDisconnect \/ BgTidy \/ BgDisc

Spec == Init /\ [][Next]_vars

(***************************************************************************)
(* Two runs started concurrently against the shared analyzer               *)
(* (spectrum_service.py 16-18: module-level singleton; tests_common.py     *)
(* 41-45; tests_lora.py 66-95).  Each run is the LoRa Tx Power sequence    *)
(* reduced to its analyzer commands; every await is a scheduling point.    *)
(***************************************************************************)
NumRuns == 2

Runs == 1..NumRuns

Freqs == {868, 915}

\* between acquiring the analyzer session and Done
Holding(st) == st \in {"center", "span", "arm", "peak", "read"}

ConcStep(r, from, to) ==
    /\ run2.pc[r] = from
    /\ run2' = [run2 EXCEPT !.pc[r] = to]

OthersFixed ==
    UNCHANGED <<variant, valid, ctl, loc, events, fgCalls, cancAt, hw, sent,
                withdrawn, delivered, bg, analyzer, calc, pool>>

\* yield start, step connectAnalyzer start (67-70)
ConcStart == (\E r \in Runs : ConcStep(r, "start", "acquire")) /\ OthersFixed

\* spec = await ensure_analyzer_async() (71): the cached instance, no guard
ConcAcquire ==
    /\ \E r \in Runs :
          /\ run2.pc[r] = "acquire"
          /\ run2' = [run2 EXCEPT !.pc[r] = "center", !.an.exists = TRUE]
    /\ OthersFixed

\* await spec_call(spec.set_center_frequency, center_hz) (tests_common.py 108)
ConcSetCenter ==
    /\ \E r \in Runs :
          /\ run2.pc[r] = "center"
          /\ run2' = [run2 EXCEPT !.pc[r] = "span", !.an.center = run2.freq[r]]
    /\ OthersFixed

\* set_span and the remaining settings (tests_common.py 109-136), settle sleep
ConcSetSpan == (\E r \in Runs : ConcStep(r, "span", "arm")) /\ OthersFixed

\* managed_ble, lora_cw_on (82-88)
ConcArm == (\E r \in Runs : ConcStep(r, "arm", "peak")) /\ OthersFixed

\* await spec_call(spec.peak_search, marker) (92)
ConcPeak == (\E r \in Runs : ConcStep(r, "peak", "read")) /\ OthersFixed

\* pow_str = await spec_call(spec.get_marker_power, marker) (93): the reading
\* is taken at whatever center the analyzer has now
ConcRead ==
    /\ \E r \in Runs :
          /\ run2.pc[r] = "read"
          /\ run2' = [run2 EXCEPT !.pc[r] = "done", !.seen[r] = run2.an.center]
    /\ OthersFixed

\* the orchestrator of the run before its first step
RunAtStart ==
    /\ variant = "LoRaTx"
    /\ valid = TRUE
    /\ gpc = Entry("LoRaTx")
    /\ pend = "none"
    /\ gend = "none"
    /\ gst = "new"
    /\ loc = [spec |-> FALSE, dut |-> FALSE, conn |-> FALSE, tries |-> 0,
              modem_on_done |-> FALSE, cw_on |-> FALSE, cleanup_done |-> FALSE,
              cap |-> FALSE, dut2 |-> FALSE, conn2 |-> FALSE, same |-> FALSE,
              pw_eq |-> FALSE]
    /\ events = << >>
    /\ fgCalls = << >>
    /\ cancAt = 0
    /\ hw = [anConn |-> FALSE, armed |-> FALSE, armedAt |-> 0, modemOnAt |-> 0,
             refused |-> {}]
    /\ cpc = "c48"
    /\ cpend = "none"
    /\ cend = "none"
    /\ sent = << >>
    /\ withdrawn = FALSE
    /\ delivered = FALSE
    /\ bgAbort = << >>
    /\ bgTidy = "none"
    /\ bgDisc = "none"

InitConc ==
    /\ RunAtStart
    /\ \E f \in [Runs -> Freqs] :
          run2 = [pc |-> [r \in Runs |-> "start"], freq |-> f,
                  an |-> [exists |-> FALSE, center |-> 0],
                  seen |-> [r \in Runs |-> 0]]
    /\ analyzer = << >>
    /\ calc = << >>
    /\ pool = << >>

NextConc ==
    \/ ConcStart \/ ConcAcquire \/ ConcSetCenter \/ ConcSetSpan \/ ConcArm
    \/ ConcPeak \/ ConcRead

SpecConc == InitConc /\ [][NextConc]_vars

(***************************************************************************)
(* The analyzer session (Spectrum/SpectrumAnalyzer.py) and the cached      *)
(* singleton (services/spectrum_service.py 16-18, 79-95).  Text on the     *)
(* wire is a sequence of one-character strings; time is counted in ticks   *)
(* of the polling sleep (send_and_wait, line 139).                         *)
(***************************************************************************)
MaxClock == 7

\* SpectrumAnalyzer(..., timeout=5): the constructor's socket timeout
SockTimeouts == {1, 2}
\* send_and_wait(..., timeout=8.0)
WaitTimeouts == {1, 2}
\* temp_timeout(seconds): duration_s + guard_s, longer than any of the above
TempTimeouts == {3}

WS == {" ", "\n", "\r", "\t"}

\* str.strip()
RECURSIVE lstrip(_)
lstrip(s) == IF s # << >> /\ Head(s) \in WS THEN lstrip(Tail(s)) ELSE s

RECURSIVE rstrip(_)
rstrip(s) ==
    IF s # << >> /\ s[Len(s)] \in WS THEN rstrip(SubSeq(s, 1, Len(s) - 1)) ELSE s

strip(s) == rstrip(lstrip(s))

\* `sub in s`
Contains(sub, s) ==
    \E i \in 0..(Len(s) - Len(sub)) : SubSeq(s, i + 1, i + Len(sub)) = sub

HasNL(part) == \E i \in 1..Len(part) : part[i] = "\n"

\* the recv loop of read_response (102-107): parts are appended until one is
\* empty or holds a newline; when the parts run out recv blocks until the
\* socket timeout
RECURSIVE recv_all(_, _)
recv_all(parts, acc) ==
    IF parts = << >> THEN [timedout |-> TRUE, data |-> acc]
    ELSE IF Head(parts) = << >> \/ HasNL(Head(parts))
         THEN [timedout |-> FALSE, data |-> acc \o Head(parts)]
         ELSE recv_all(Tail(parts), acc \o Head(parts))

\* what the instrument puts on the wire in answer to *OPC?
OpcWires ==
    { << <<"1", "\n">> >>,               \* complete
      << <<" ", "1", "\r", "\n">> >>,    \* complete, padded
      << <<"1">>, <<"\n">> >>,           \* complete, in two segments
      << <<"0", "\n">> >>,               \* not complete
      << <<"1", "0", "\n">> >>,          \* some other text
      << << >> >>,                       \* peer closed: recv returns b''
      << <<"1">> >>,                     \* no line end, then silence
      << >> }                            \* no reply at all

\* what it puts on the wire in answer to *IDN?
IdnWires ==
    { << <<"R", "o", "h", "d", "e", "&", "S", ",", "F", "S", "C", "\n">> >>,
      << <<"R", "o", "h">>, <<"d", "e", "\n">> >>,
      << <<"r", "o", "h", "d", "e", "\n">> >>,
      << <<"K", "e", "y", "\n">> >>,
      << <<"\n">> >>,
      << << >> >>,
      << >> }

Vendor == <<"R", "o", "h", "d", "e">>

WaitFors == { <<"1">>, <<"0">> }

\* outcome of one socket call: "ok", "reset" (OSError: the socket died) or
\* "other" (any exception that is not an OSError)
SendFaults == {"ok", "reset", "other"}
ReadFaults == {"ok", "reset"}

Ret(v) == [exc |-> "none", val |-> v, timedout |-> FALSE]
Exc(e) == [exc |-> e, val |-> << >>, timedout |-> FALSE]

is_connected(s) == s.sock # "none"

\* send_command (86-96)
send_command(s, f) ==
    IF ~is_connected(s) THEN Exc("InstrumentNotConnected")
    ELSE IF f = "reset" THEN Exc("InstrumentNotConnected")
    ELSE IF f = "other" THEN Exc("IOError")
    ELSE Ret(<< >>)

\* read_response (98-113): socket.timeout is an OSError
read_response(s, f, parts) ==
    IF ~is_connected(s) THEN Exc("InstrumentNotConnected")
    ELSE IF f = "reset" THEN Exc("InstrumentNotConnected")
    ELSE LET r == recv_all(parts, << >>)
         IN  IF r.timedout
             THEN [exc |-> "InstrumentNotConnected", val |-> << >>, timedout |-> TRUE]
             ELSE Ret(strip(r.data))

\* query (115-119)
query(s, sf, rf, parts) ==
    IF ~is_connected(s) THEN Exc("InstrumentNotConnected")
    ELSE IF send_command(s, sf).exc # "none" THEN send_command(s, sf)
    ELSE read_response(s, rf, parts)

\* the socket of the session has died under a call
Died(s, sf, rf) == is_connected(s) /\ (sf = "reset" \/ (sf = "ok" /\ rf = "reset"))

Finish(s, op, res) == [s EXCEPT !.pc = "idle", !.op = op, !.res = res]

NewSession(t) ==
    [sock |-> "none", dead |-> FALSE, timeout |-> t, stimeout |-> 0,
     cached |-> FALSE, pc |-> "idle", op |-> "none", res |-> "none",
     now |-> 0, deadline |-> 0, waitFor |-> << >>, sentCmd |-> 0, polls |-> 0,
     matched |-> FALSE, prev |-> 0, gOpen |-> FALSE, gReply |-> << >>,
     cmds |-> << >>]

\* a new call on the session: the bookkeeping of the previous call is dropped
\* and the clock is read relative to the start of the call
Begin(s) ==
    [s EXCEPT !.op = "none", !.res = "none", !.now = 0, !.deadline = 0,
              !.waitFor = << >>, !.sentCmd = 0, !.polls = 0, !.matched = FALSE,
              !.prev = 0, !.gOpen = FALSE, !.gReply = << >>, !.cmds = << >>]

RunFixed ==
    UNCHANGED <<variant, valid, ctl, loc, events, fgCalls, cancAt, hw, sent,
                withdrawn, delivered, bg, run2, calc, pool>>

\* an except clause that keeps the socket handle
connect_failed_keeps_socket(s) == Finish(s, "connect", "ConnectionError")

\* connect (51-66): the except clause
connect_failed(s) ==
    [Finish(s, "connect", "ConnectionError") EXCEPT !.sock = "none", !.stimeout = 0]

connect(s, open, sf, rf, parts) ==
    LET s1 == [s EXCEPT !.sock = "open", !.dead = FALSE, !.stimeout = s.timeout]
        snd == send_command(s1, sf)
        rd  == read_response(s1, rf, parts)
        s2  == [s1 EXCEPT !.gOpen = open,
                          !.gReply = IF open /\ snd.exc = "none" THEN rd.val ELSE << >>]
    IN  IF ~open THEN connect_failed([s EXCEPT !.gOpen = FALSE, !.gReply = << >>])
        ELSE IF snd.exc # "none" \/ rd.exc # "none" THEN connect_failed(s2)
        ELSE IF rd.val = << >> \/ ~Contains(Vendor, rd.val) THEN connect_failed(s2)
        ELSE Finish(s2, "connect", "ok")

SessConnect ==
    /\ analyzer.pc = "idle"
    /\ \E open \in BOOLEAN, sf \in SendFaults, rf \in ReadFaults, parts \in IdnWires :
          analyzer' = connect(Begin(analyzer), open, sf, rf, parts)
    /\ RunFixed

\* disconnect (68-80): shutdown failures are swallowed, close is not guarded,
\* the finally clause drops the handle
disconnect(s, shutdownOk, closeOk) ==
    [Finish(s, "disconnect",
            IF is_connected(s) /\ ~closeOk THEN "OSError" ELSE "ok")
       EXCEPT !.sock = "none", !.stimeout = 0]

SessDisconnect ==
    /\ analyzer.pc = "idle"
    /\ \E sh \in BOOLEAN, cl \in BOOLEAN : analyzer' = disconnect(Begin(analyzer), sh, cl)
    /\ RunFixed

\* a caller's send_command
SessSend ==
    /\ analyzer.pc = "idle"
    /\ \E sf \in SendFaults :
          LET r == send_command(analyzer, sf)
          IN  analyzer' = [Finish(Begin(analyzer), "send_command",
                              IF r.exc = "none" THEN "ok" ELSE r.exc)
                         EXCEPT !.dead = @ \/ Died(analyzer, sf, "ok")]
    /\ RunFixed

\* a caller's read_response
SessRead ==
    /\ analyzer.pc = "idle"
    /\ \E rf \in ReadFaults, parts \in OpcWires :
          LET r == read_response(analyzer, rf, parts)
          IN  analyzer' = [Finish(Begin(analyzer), "read_response",
                              IF r.exc = "none" THEN "ok" ELSE r.exc)
                         EXCEPT !.dead = @ \/ Died(analyzer, "ok", rf)]
    /\ RunFixed

\* spectrum_service.get_analyzer (79-85)
get_analyzer(s) == s.cached /\ is_connected(s)

\* spectrum_service.ensure_analyzer (88-95): the cached session when
\* get_analyzer accepts it, else create_analyzer (45-76) makes a new one
SessEnsure ==
    /\ analyzer.pc = "idle"
    /\ IF get_analyzer(analyzer)
       THEN analyzer' = Finish(Begin(analyzer), "ensure_analyzer", "cached")
       ELSE \E open \in BOOLEAN, sf \in SendFaults, rf \in ReadFaults,
               parts \in IdnWires, t \in SockTimeouts :
               LET c == connect(NewSession(t), open, sf, rf, parts)
               IN  analyzer' = IF c.res = "ok"
                           THEN [Finish(c, "ensure_analyzer", "created")
                                   EXCEPT !.cached = TRUE]
                           ELSE Finish(Begin(analyzer), "ensure_analyzer", "HTTP503")
    /\ RunFixed

\* a loop condition that never turns false
saw_always_in_time(s) == TRUE

\* send_and_wait (121-141): the loop condition `time.time() < deadline`
saw_in_time(s) == s.now < s.deadline

\* send_and_wait, lines 126-127
SawStart ==
    /\ analyzer.pc = "idle"
    /\ \E T \in WaitTimeouts, w \in WaitFors, sf \in SendFaults :
          /\ LET s0 == Begin(analyzer)
                 r  == send_command(s0, sf)
                 s1 == [s0 EXCEPT !.op = "send_and_wait", !.waitFor = w,
                                  !.sentCmd = IF is_connected(s0) THEN 1 ELSE 0,
                                  !.dead = @ \/ Died(s0, sf, "ok"),
                                  !.deadline = s0.now + T]
             IN  analyzer' = IF r.exc # "none"
                         THEN Finish(s1, "send_and_wait", r.exc)
                         ELSE [s1 EXCEPT !.pc = "saw_loop"]
    /\ RunFixed

\* one pass of the loop body, lines 129-138
SawPoll ==
    /\ analyzer.pc = "saw_loop"
    /\ saw_in_time(analyzer)
    /\ \E sf \in SendFaults, rf \in ReadFaults, parts \in OpcWires,
          delay \in 0..(analyzer.stimeout - 1) :
          LET r   == query(analyzer, sf, rf, parts)
              dur == IF r.timedout THEN analyzer.stimeout ELSE delay
              s1  == [analyzer EXCEPT !.now = @ + dur, !.polls = @ + 1,
                                  !.dead = @ \/ Died(analyzer, sf, rf),
                                  !.matched = @ \/ (r.exc = "none" /\ strip(r.val) = analyzer.waitFor)]
          IN  /\ analyzer.now + dur <= MaxClock
              /\ analyzer' =
                   IF r.exc = "InstrumentNotConnected"
                   THEN Finish(s1, "send_and_wait", "InstrumentNotConnected")
                   ELSE IF r.exc # "none" THEN [s1 EXCEPT !.pc = "saw_sleep"]
                   ELSE IF r.val # << >> /\ strip(r.val) = analyzer.waitFor
                        THEN Finish(s1, "send_and_wait", "True")
                        ELSE [s1 EXCEPT !.pc = "saw_sleep"]
    /\ RunFixed

\* time.sleep(0.1), line 139
SawSleep ==
    /\ analyzer.pc = "saw_sleep"
    /\ analyzer.now < MaxClock
    /\ analyzer' = [analyzer EXCEPT !.now = @ + 1, !.pc = "saw_loop"]
    /\ RunFixed

\* line 141
SawTimeout ==
    /\ analyzer.pc = "saw_loop"
    /\ ~saw_in_time(analyzer)
    /\ analyzer' = Finish(analyzer, "send_and_wait", "TimeoutError")
    /\ RunFixed

\* set_socket_timeout (423-427)
set_socket_timeout(s, seconds) ==
    IF ~is_connected(s) THEN s
    ELSE [s EXCEPT !.timeout = seconds, !.stimeout = seconds]

\* temp_timeout (429-438) up to the yield
TtEnter ==
    /\ analyzer.pc = "idle"
    /\ \E seconds \in TempTimeouts :
          analyzer' = IF ~is_connected(analyzer)
                  THEN Finish(Begin(analyzer), "temp_timeout", "InstrumentNotConnected")
                  ELSE [set_socket_timeout(Begin(analyzer), seconds)
                          EXCEPT !.pc = "tt_block", !.op = "temp_timeout",
                                 !.res = "none", !.prev = analyzer.timeout]
    /\ RunFixed

\* inside the with block: the session is disconnected, by the body or by
\* another caller of the shared session
TtDisconnect ==
    /\ analyzer.pc = "tt_block"
    /\ is_connected(analyzer)
    /\ \E sh \in BOOLEAN, cl \in BOOLEAN :
          analyzer' = [disconnect(analyzer, sh, cl)
                     EXCEPT !.pc = "tt_block", !.op = "temp_timeout", !.res = "none"]
    /\ RunFixed

\* the block ends, normally or by an exception; the finally clause (437-438)
TtExit ==
    /\ analyzer.pc = "tt_block"
    /\ \E raised \in BOOLEAN :
          analyzer' = Finish(set_socket_timeout(analyzer, analyzer.prev), "temp_timeout",
                         IF ~is_connected(analyzer) THEN "InstrumentNotConnected"
                         ELSE IF raised THEN "BodyError" ELSE "ok")
    /\ RunFixed

\* how max_hold() / clear_write() (299-303) can end: "nosend" when the command
\* could not be written, else the command is on the wire and the wait for
\* completion returns or raises
WaitEnds == {"True", "TimeoutError", "InstrumentNotConnected", "nosend"}

Issued(cmds, c, e) == IF e = "nosend" THEN cmds ELSE Append(cmds, c)

\* measure_obw_via_max_hold (305-419)
measure_obw_via_max_hold(s, mh, body, cw) ==
    LET c1 == Issued(<< >>, "MAXHold", mh)
    IN  IF mh # "True"
        THEN [Finish(s, "measure_obw_via_max_hold", "RuntimeError")   \* 337-338
                EXCEPT !.cmds = c1]
        ELSE [Finish(s, "measure_obw_via_max_hold",
                     IF body = "ok" THEN "ok" ELSE body)
                EXCEPT !.cmds = Issued(c1, "WRIT", cw)]                \* 414-419

\* faults of steps 2-3c: trace fetch, short trace, span query, computation
ObwBodyEnds == {"ok", "RuntimeError", "ValueError", "InstrumentNotConnected"}

SessObw ==
    /\ analyzer.pc = "idle"
    /\ \E mh \in WaitEnds, body \in ObwBodyEnds, cw \in WaitEnds :
          /\ is_connected(analyzer) \/ (mh = "nosend" /\ cw = "nosend")
          /\ analyzer' = measure_obw_via_max_hold(Begin(analyzer), mh, body, cw)
    /\ RunFixed

InitSess ==
    /\ RunAtStart
    /\ run2 = << >>
    /\ calc = << >>
    /\ pool = << >>
    /\ \E t \in SockTimeouts : analyzer = NewSession(t)

NextSess ==
    \/ SessConnect \/ SessDisconnect \/ SessSend \/ SessRead \/ SessEnsure
    \/ SawStart \/ SawPoll \/ SawSleep \/ SawTimeout
    \/ TtEnter \/ TtDisconnect \/ TtExit \/ SessObw

SpecSess == InitSess /\ [][NextSess]_vars

\* the polling loop is a sequential program: its next step is always taken
SpecSessFair ==
    SpecSess /\ WF_vars(SawPoll) /\ WF_vars(SawSleep) /\ WF_vars(SawTimeout)

(***************************************************************************)
(* Pure computations of the orchestrators and the driver.  calc holds the  *)
(* arguments of one call (fn, in) and, once the function has been applied, *)
(* its result (done, out).  Powers are exact: trace samples are multiples  *)
(* of 10 dBm, so their linear power 10^(v/10) is an integer, and every     *)
(* quotient is kept as a numerator / denominator pair.                     *)
(***************************************************************************)
MaxTrace == 10

\* tests_lora.py 266: `if n < 10`
MIN_TRACE_POINTS == 10

Levels == {0, 10}
Pcts == {50, 90, 99, 100}
Spans == {0, 90}
PointCounts == {1, 5, 10}

\* 10.0 ** (v / 10.0)
Lin(v) == 10 ^ (v \div 10)

RECURSIVE SumSeq(_)
SumSeq(s) == IF s = << >> THEN 0 ELSE Head(s) + SumSeq(Tail(s))

Max2(a, b) == IF a >= b THEN a ELSE b

\* max(range(n), key=lambda i: lin[i]): the first index of the greatest sample
peak_index(lin) ==
    CHOOSE i \in 1..Len(lin) :
        /\ \A j \in 1..Len(lin) : lin[j] <= lin[i]
        /\ \A j \in 1..(i - 1) : lin[j] < lin[i]

\* a loop that never widens the window
grow_never(lin, left, right, acc, total, pct) ==
    [left |-> left, right |-> right, acc |-> acc]

\* the loop condition of tests_lora.py 278 (SpectrumAnalyzer.py 392);
\* acc < total * pct / 100 is compared as 100 * acc < total * pct
while_continues(lin, left, right, acc, total, pct) ==
    100 * acc < total * pct /\ (left > 1 \/ right < Len(lin))

\* a loop body that goes right when the two neighbours are equal
while_body_right_on_ties(lin, left, right, acc) ==
    LET n  == Len(lin)
        lp == IF left > 1 THEN lin[left - 1] ELSE 0 - 1
        rp == IF right < n THEN lin[right + 1] ELSE 0 - 1
    IN  IF rp >= lp /\ right < n
        THEN [left |-> left, right |-> right + 1, acc |-> acc + lin[right + 1], brk |-> FALSE]
        ELSE IF left > 1
             THEN [left |-> left - 1, right |-> right, acc |-> acc + lin[left - 1], brk |-> FALSE]
             ELSE [left |-> left, right |-> right, acc |-> acc, brk |-> TRUE]

\* one pass through the loop body (tests_lora.py 279-286); brk: `break`
while_body(lin, left, right, acc) ==
    LET n  == Len(lin)
        lp == IF left > 1 THEN lin[left - 1] ELSE 0 - 1
        rp == IF right < n THEN lin[right + 1] ELSE 0 - 1
    IN  IF rp > lp /\ right < n
        THEN [left |-> left, right |-> right + 1, acc |-> acc + lin[right + 1], brk |-> FALSE]
        ELSE IF left > 1
             THEN [left |-> left - 1, right |-> right, acc |-> acc + lin[left - 1], brk |-> FALSE]
             ELSE [left |-> left, right |-> right, acc |-> acc, brk |-> TRUE]

\* the while loop of tests_lora.py 275-286 (SpectrumAnalyzer.py 389-400)
RECURSIVE grow(_, _, _, _, _, _)
grow(lin, left, right, acc, total, pct) ==
    LET b == while_body(lin, left, right, acc)
    IN  IF ~while_continues(lin, left, right, acc, total, pct) \/ b.brk
        THEN [left |-> left, right |-> right, acc |-> acc]
        ELSE grow(lin, b.left, b.right, b.acc, total, pct)

\* a range check that accepts every value
obw_any_value(num, den, span) == TRUE

\* tests_lora.py 290: 0.0 < obw_hz <= span_hz * 1.05, with obw_hz = num / den
obw_in_range(num, den, span) == num > 0 /\ 100 * num <= 105 * span * den

\* _compute_obw_from_trace (tests_lora.py 264-293)
compute_obw_from_trace(dbm, span, pts, pct) ==
    LET n     == Len(dbm)
        lin   == [i \in 1..n |-> Lin(dbm[i])]
        total == SumSeq(lin)
        peak  == peak_index(lin)
        w     == grow(lin, peak, peak, lin[peak], total, pct)
        den   == Max2(1, pts - 1)
        num   == Max2(1, w.right - w.left) * span
        none  == [exc |-> "none", num |-> 0, den |-> 1, left |-> 0, right |-> 0]
    IN  IF n < MIN_TRACE_POINTS THEN [none EXCEPT !.exc = "RuntimeError"]
        ELSE IF total <= 0 THEN [none EXCEPT !.exc = "RuntimeError"]
        ELSE IF ~obw_in_range(num, den, span)
             THEN [none EXCEPT !.exc = "ValueError", !.num = num, !.den = den,
                               !.left = w.left, !.right = w.right]
             ELSE [exc |-> "none", num |-> num, den |-> den,
                   left |-> w.left, right |-> w.right]

ObwInputs ==
    { [dbm |-> t, span |-> s, pts |-> p, pct |-> q] :
        t \in UNION { [1..n -> Levels] : n \in (MaxTrace - 1)..MaxTrace },
        s \in Spans, p \in PointCounts, q \in Pcts }

Call0(fn, in) == [fn |-> fn, in |-> in, done |-> FALSE, out |-> << >>]

CalcFixed ==
    UNCHANGED <<variant, valid, ctl, loc, events, fgCalls, cancAt, hw, sent,
                withdrawn, delivered, bg, run2, analyzer, pool>>

Pending(fn) == calc.fn = fn /\ ~calc.done

Applied(out) == [calc EXCEPT !.done = TRUE, !.out = out]

ObwApply ==
    /\ Pending("obw")
    /\ calc' = Applied(compute_obw_from_trace(calc.in.dbm, calc.in.span,
                                              calc.in.pts, calc.in.pct))
    /\ CalcFixed

\* the driver's copy of the loop (SpectrumAnalyzer.py 389-400)
RECURSIVE driver_grow(_, _, _, _, _, _)
driver_grow(lin, left, right, acc, total, pct) ==
    IF 100 * acc < total * pct /\ (left > 1 \/ right < Len(lin))
    THEN LET lp == IF left > 1 THEN lin[left - 1] ELSE 0 - 1
             rp == IF right < Len(lin) THEN lin[right + 1] ELSE 0 - 1
         IN  IF rp > lp /\ right < Len(lin)
             THEN driver_grow(lin, left, right + 1, acc + lin[right + 1], total, pct)
             ELSE IF left > 1
                  THEN driver_grow(lin, left - 1, right, acc + lin[left - 1], total, pct)
                  ELSE [left |-> left, right |-> right, acc |-> acc]
    ELSE [left |-> left, right |-> right, acc |-> acc]

\* the computation inside measure_obw_via_max_hold (SpectrumAnalyzer.py
\* 364-412) on a parsed trace, span and point count: the bandwidth as the
\* fraction num / den, or the exception raised
driver_compute_obw(dbm, span, pts, pct) ==
    LET n     == Len(dbm)
        lin   == [i \in 1..n |-> Lin(dbm[i])]
        total == SumSeq(lin)
        peak  == peak_index(lin)
        w     == driver_grow(lin, peak, peak, lin[peak], total, pct)
        den   == Max2(1, pts - 1)
        num   == Max2(1, w.right - w.left) * span
    IN  IF n < 10 THEN [exc |-> "RuntimeError", num |-> 0, den |-> 1]
        ELSE IF total <= 0 THEN [exc |-> "RuntimeError", num |-> 0, den |-> 1]
        ELSE IF ~(num > 0 /\ 100 * num <= 105 * span * den)
             THEN [exc |-> "ValueError", num |-> num, den |-> den]
             ELSE [exc |-> "none", num |-> num, den |-> den]

\* both computations applied to the same parsed trace
ObwBothApply ==
    /\ Pending("obw_both")
    /\ calc' = Applied(
          [orch |-> compute_obw_from_trace(calc.in.dbm, calc.in.span,
                                           calc.in.pts, calc.in.pct),
           drv  |-> driver_compute_obw(calc.in.dbm, calc.in.span,
                                       calc.in.pts, calc.in.pct)])
    /\ CalcFixed

\* the window search of _compute_obw_from_trace, one loop iteration per step
SearchInputs ==
    { [dbm |-> t, pct |-> q] : t \in [1..MaxTrace -> Levels], q \in Pcts }

LinOf(dbm) == [i \in 1..Len(dbm) |-> Lin(dbm[i])]

\* left = right = peak; acc = lin[peak] (tests_lora.py 273-277)
SearchBegin ==
    /\ calc.fn = "obw_search" /\ ~calc.done /\ calc.out = << >>
    /\ LET lin  == LinOf(calc.in.dbm)
           peak == peak_index(lin)
       IN  calc' = [calc EXCEPT !.out = [left |-> peak, right |-> peak,
                                         acc |-> lin[peak], peak |-> peak]]
    /\ CalcFixed

\* the loop test, then the loop body or the exit (tests_lora.py 278-286)
SearchStep ==
    /\ calc.fn = "obw_search" /\ ~calc.done /\ calc.out # << >>
    /\ LET lin == LinOf(calc.in.dbm)
           w   == calc.out
           b   == while_body(lin, w.left, w.right, w.acc)
       IN  IF ~while_continues(lin, w.left, w.right, w.acc, SumSeq(lin), calc.in.pct)
              \/ b.brk
           THEN calc' = [calc EXCEPT !.done = TRUE]
           ELSE calc' = [calc EXCEPT !.out.left = b.left, !.out.right = b.right,
                                     !.out.acc = b.acc]
    /\ CalcFixed

\* an optional argument: None or a number
None == [some |-> FALSE, v |-> 0]
Some(v) == [some |-> TRUE, v |-> v]

Bool3(b) == IF b THEN "true" ELSE "false"

\* a decision that fails a run without bounds
tx_power_failed_without_bounds(measured, min_value, max_value) ==
    IF ~min_value.some /\ ~max_value.some THEN "false"
    ELSE Bool3((min_value.some => measured >= min_value.v)
               /\ (max_value.some => measured <= max_value.v))

\* the pass decision of the Tx power runs (tests_lora.py 98-103,
\* tests_lte.py 233-238, tests_ble.py 260-265)
tx_power_passed(measured, min_value, max_value) ==
    IF ~min_value.some /\ ~max_value.some THEN "null"
    ELSE LET lower_ok == IF ~min_value.some THEN TRUE ELSE measured >= min_value.v
             upper_ok == IF ~max_value.some THEN TRUE ELSE measured <= max_value.v
         IN  Bool3(lower_ok /\ upper_ok)

PowersDbm == {13, 14, 15}
PowerLimits == {None, Some(14), Some(15)}

TxPassInputs ==
    { [measured |-> m, min_value |-> lo, max_value |-> hi] :
        m \in PowersDbm, lo \in PowerLimits, hi \in PowerLimits }

TxPassApply ==
    /\ Pending("tx_pass")
    /\ calc' = Applied(tx_power_passed(calc.in.measured, calc.in.min_value,
                                       calc.in.max_value))
    /\ CalcFixed

\* a frequency of mhz * 10^6 + hz Hz
Freq(mhz, hz) == [mhz |-> mhz, hz |-> hz]

\* a - b in Hz
HzDiff(a, b) == (a.mhz - b.mhz) * 1000000 + (a.hz - b.hz)

Abs(x) == IF x < 0 THEN 0 - x ELSE x

\* tests_lora.py 234-236 and tests_lte.py 648-649, 684: the expected frequency
\* is a whole number of MHz, so error_hz / freq_hz * 1e6 = error_hz / mhz
freq_error(measured, expected, ppm_limit) ==
    LET error_hz == HzDiff(measured, expected)
        has_ppm  == expected.mhz # 0
    IN  [errorHz |-> error_hz,
         ppm     |-> IF has_ppm THEN Some(error_hz) ELSE None,
         ppmDen  |-> expected.mhz,
         pass    |-> IF ppm_limit.some /\ has_ppm
                     THEN Bool3(Abs(error_hz) <= ppm_limit.v * expected.mhz)
                     ELSE "null"]

\* tests_ble.py 417-418, 432-436
ble_freq_error(measured, expected, ppm_limit) ==
    LET err_hz == Abs(HzDiff(measured, expected))
    IN  [errorHz |-> err_hz,
         ppm     |-> Some(err_hz),
         ppmDen  |-> expected.mhz,
         pass    |-> IF ~ppm_limit.some THEN "null"
                     ELSE Bool3(err_hz <= ppm_limit.v * expected.mhz)]

FaKinds == {"LoRa", "LTE", "BLE"}

\* the carrier: a LoRa / LTE channel at 918 MHz (0: no frequency given), BLE
\* channel 0 at 2402 MHz
Carriers(k) == IF k = "BLE" THEN {2402} ELSE {0, 918}

\* offsets of the measured frequency from the carrier, in ppm of the carrier
OffsetsPpm == {0 - 20, 0 - 10, 0, 10, 20}
PpmLimits == {None, Some(5), Some(15)}

FaInputs ==
    UNION { { [kind |-> k, expected |-> Freq(e, 0),
               measured |-> Freq(IF e = 0 THEN 918 ELSE e,
                                 o * (IF e = 0 THEN 918 ELSE e)),
               ppm_limit |-> l] :
                e \in Carriers(k), o \in OffsetsPpm, l \in PpmLimits } :
            k \in FaKinds }

FaApply ==
    /\ Pending("freq_error")
    /\ calc' = Applied(IF calc.in.kind = "BLE"
                       THEN ble_freq_error(calc.in.measured, calc.in.expected,
                                           calc.in.ppm_limit)
                       ELSE freq_error(calc.in.measured, calc.in.expected,
                                       calc.in.ppm_limit))
    /\ CalcFixed

\* the methods of class SpectrumAnalyzer that the get operations look up
\* (SpectrumAnalyzer.py 36-440); _only_number (17) and _query_number (25) are
\* module-level functions
ClassMethods == {"query", "send_command", "read_response", "get_rbw", "get_vbw",
                 "get_span", "get_center_frequency"}

\* a reply as a sequence of tokens, numeric or not
Num(v) == [isnum |-> TRUE, v |-> v]
Txt == [isnum |-> FALSE, v |-> 0]

\* _only_number (17-21): FLOAT_RE.search, the first numeric token
only_number(toks) ==
    IF \E i \in 1..Len(toks) : toks[i].isnum
    THEN [exc |-> "none",
          val |-> toks[CHOOSE i \in 1..Len(toks) :
                          toks[i].isnum /\ \A j \in 1..(i - 1) : ~toks[j].isnum].v]
    ELSE [exc |-> "ValueError", val |-> 0]

\* what the instrument does with one query: it rejects it (the query raises)
\* or answers with a line of tokens
Rejected == [rejected |-> TRUE, toks |-> << >>]
Answer(toks) == [rejected |-> FALSE, toks |-> toks]

QueryEnds ==
    { Rejected, Answer(<< >>), Answer(<<Txt>>), Answer(<<Num(868)>>),
      Answer(<<Txt, Num(915), Txt>>) }

\* self._query_number(cmd) (25-31): attribute lookup on the instance, then
\* query and parse
query_number(r) ==
    IF "_query_number" \notin ClassMethods THEN [exc |-> "AttributeError", val |-> 0]
    ELSE IF r.rejected THEN [exc |-> "IOError", val |-> 0]
    ELSE only_number(r.toks)

\* get_span (219-224), get_center_frequency (272-278): one fallback
get_with_fallback(r1, r2) ==
    IF query_number(r1).exc = "none" THEN query_number(r1) ELSE query_number(r2)

\* get_rbw (194-205), get_vbw (207-217): two fallbacks
get_with_fallbacks(r1, r2, r3) ==
    IF query_number(r1).exc = "none" THEN query_number(r1)
    ELSE IF query_number(r2).exc = "none" THEN query_number(r2)
    ELSE query_number(r3)

GetOps == {"get_center_frequency", "get_span", "get_rbw", "get_vbw"}

GetInputs ==
    { [op |-> o, r1 |-> a, r2 |-> b, r3 |-> c] :
        o \in GetOps, a \in QueryEnds, b \in QueryEnds, c \in QueryEnds }

GetApply ==
    /\ Pending("get")
    /\ calc' = Applied(IF calc.in.op \in {"get_rbw", "get_vbw"}
                       THEN get_with_fallbacks(calc.in.r1, calc.in.r2, calc.in.r3)
                       ELSE get_with_fallback(calc.in.r1, calc.in.r2))
    /\ CalcFixed

Pass(span, rbw, vbw) == [span_hz |-> span, rbw_hz |-> rbw, vbw_hz |-> vbw]

\* tests_lora.py 24-28, tests_lte.py 510-514
FALLBACK_ZOOMS ==
    << Pass(2000000, 30000, 100000), Pass(200000, 10000, 30000),
       Pass(20000, 1000, 3000) >>

\* tests_ble.py 81-85
BLE_FALLBACK_ZOOMS ==
    << Pass(2000000, 300000, 100000), Pass(200000, 10000, 300000),
       Pass(20000, 1000, 3000) >>

\* a configured entry: malformed (int() raises) or three integers
ZoomEntry(bad, span, rbw, vbw) ==
    [bad |-> bad, span_hz |-> span, rbw_hz |-> rbw, vbw_hz |-> vbw]

valid_pass(z) == ~z.bad /\ z.span_hz > 0 /\ z.rbw_hz > 0 /\ z.vbw_hz > 0

RECURSIVE valid_passes(_)
valid_passes(raw) ==
    IF raw = << >> THEN << >>
    ELSE (IF valid_pass(Head(raw))
          THEN <<Pass(Head(raw).span_hz, Head(raw).rbw_hz, Head(raw).vbw_hz)>>
          ELSE << >>) \o valid_passes(Tail(raw))

\* _load_zooms_from_yaml (tests_lora.py 131-151), _load_lte_zooms
\* (tests_lte.py 516-531), _load_ble_zooms_from_yaml (tests_ble.py 59-85)
load_zooms(kind, cfg) ==
    LET zooms == IF cfg.islist THEN valid_passes(cfg.raw) ELSE << >>
    IN  IF zooms # << >> THEN zooms
        ELSE IF kind = "BLE" THEN BLE_FALLBACK_ZOOMS ELSE FALLBACK_ZOOMS

MaxZoomEntries == 2

ZoomEntries ==
    { ZoomEntry(TRUE, 0, 0, 0), ZoomEntry(FALSE, 1000000, 10000, 30000),
      ZoomEntry(FALSE, 50000, 3000, 3000), ZoomEntry(FALSE, 0, 1000, 1000) }

ZoomInputs ==
    { [kind |-> k, cfg |-> c] :
        k \in FaKinds,
        c \in {[islist |-> FALSE, raw |-> << >>]} \cup
              { [islist |-> TRUE, raw |-> r] :
                  r \in UNION { [1..n -> ZoomEntries] : n \in 0..MaxZoomEntries } } }

ZoomApply ==
    /\ Pending("load_zooms")
    /\ calc' = Applied(load_zooms(calc.in.kind, calc.in.cfg))
    /\ CalcFixed

InitCalc ==
    /\ RunAtStart
    /\ pool = << >>
    /\ run2 = << >>
    /\ analyzer = << >>
    /\ \/ \E i \in ObwInputs : calc = Call0("obw", i)
       \/ \E i \in TxPassInputs : calc = Call0("tx_pass", i)
       \/ \E i \in FaInputs : calc = Call0("freq_error", i)
       \/ \E i \in GetInputs : calc = Call0("get", i)
       \/ \E i \in ZoomInputs : calc = Call0("load_zooms", i)
       \/ \E i \in SearchInputs : calc = Call0("obw_search", i)
       \/ \E i \in ObwInputs : calc = Call0("obw_both", i)

NextCalc ==
    \/ ObwApply \/ TxPassApply \/ FaApply \/ GetApply \/ ZoomApply
    \/ SearchBegin \/ SearchStep \/ ObwBothApply

SpecCalc == InitCalc /\ [][NextCalc]_vars

(***************************************************************************)
(* The analyzer singleton under concurrent callers                         *)
(* (services/spectrum_service.py 16-18, 45-95).  Every run reaches         *)
(* ensure_analyzer through asyncio.to_thread (tests_common.py 41-42), so    *)
(* the callers are worker threads and a thread switch can fall between any *)
(* two statements; connect() blocks on the network.  There is no lock.     *)
(* A connection is named by the thread that opened it; 0 is None.          *)
(***************************************************************************)
NumThreads == 3

Threads == 1..NumThreads

PoolFixed ==
    UNCHANGED <<variant, valid, ctl, loc, events, fgCalls, cancAt, hw, sent,
                withdrawn, delivered, bg, run2, analyzer, calc>>

\* _analyzer is not None and _analyzer.is_connected (56, 83)
cached_connected == pool.cached # 0 /\ pool.cached \in pool.open

PoolAt(t, pc) == pool.pc[t] = pc

PoolTo(t, pc) == [pool EXCEPT !.pc[t] = pc]

PoolReturn(t, c) == [pool EXCEPT !.pc[t] = "returned", !.got[t] = c]

\* a run calls ensure_analyzer_async(): the call starts in a worker thread
PoolCall ==
    /\ \E t \in Threads : PoolAt(t, "idle") /\ pool' = PoolTo(t, "get")
    /\ PoolFixed

\* ensure_analyzer (88-95) -> get_analyzer (79-85)
PoolGet ==
    /\ \E t \in Threads :
          /\ PoolAt(t, "get")
          /\ pool' = IF cached_connected THEN PoolReturn(t, pool.cached)
                      ELSE PoolTo(t, "check")
    /\ PoolFixed

\* create_analyzer: reuse the cached instance of the same target (56-58)
PoolCheck ==
    /\ \E t \in Threads :
          /\ PoolAt(t, "check")
          /\ pool' = IF cached_connected THEN PoolReturn(t, pool.cached)
                      ELSE PoolTo(t, "connect")
    /\ PoolFixed

\* analyzer = SpectrumAnalyzer(ip, port); analyzer.connect() (66-71)
PoolConnect ==
    /\ \E t \in Threads :
          /\ PoolAt(t, "connect")
          /\ \/ pool' = [PoolTo(t, "assign") EXCEPT !.open = @ \cup {t}]
             \/ pool' = PoolTo(t, "raised")          \* HTTPException 503
    /\ PoolFixed

\* _analyzer = analyzer; return analyzer (73-75)
PoolAssign ==
    /\ \E t \in Threads :
          /\ PoolAt(t, "assign")
          /\ pool' = [PoolReturn(t, t) EXCEPT !.cached = t]
    /\ PoolFixed

InitPool ==
    /\ RunAtStart
    /\ run2 = << >>
    /\ analyzer = << >>
    /\ calc = << >>
    /\ pool = [pc |-> [t \in Threads |-> "idle"], cached |-> 0, open |-> {},
               got |-> [t \in Threads |-> 0]]

NextPool == PoolCall \/ PoolGet \/ PoolCheck \/ PoolConnect \/ PoolAssign

SpecPool == InitPool /\ [][NextPool]_vars

(***************************************************************************)
(* Properties.                                                             *)
(***************************************************************************)
HasEvent(t) == \E i \in 1..Len(events) : events[i].type = t

LastEvent == events[Len(events)]

\* the orchestrators of tests_lora.py / tests_ble.py that tests_routes.py hands
\* to _sse (the LoRa Tx / LTE routes still import the legacy tests_runner)
SseRouted == {"BleTx", "LoRaObw"}

\* the generator returned or raised by itself (not cancelled, not closed)
EndedByItself == gst = "closed" /\ gend \in ExcClass \cup {"stop"} /\ ~canc

\* (C1) In every run, on every path, Done is emitted at most once and no event
\* of the run follows it: every Done in the event sequence is its last element,
\* and so it is in what _sse delivers to the client.
C1_DoneOnceAndLast ==
    /\ \A i \in 1..Len(events) : events[i].type = "done" => i = Len(events)
    /\ variant \in SseRouted =>
          \A i \in 1..Len(sent) : sent[i] = "done" => i = Len(sent)

\* a cancelled run that has ended, with Done as the last of several events
C1_Witness ==
    /\ canc /\ gst = "closed"
    /\ Len(events) > 2
    /\ LastEvent.type = "done"

\* (C2) Every started run emits Done whatever the error kind (validation,
\* configuration load, analyzer or DUT failure): a run that has ended by itself
\* has emitted Done.
C2_EveryRunEmitsDone == EndedByItself => HasEvent("done")

\* the disarm sequence of the protocol appears in the foreground calls after
\* the successful CW-on
DisarmAfterArm ==
    LET after == {i \in 1..Len(fgCalls) : i > hw.armedAt /\ fgCalls[i].t = "dut"}
    IN IF variant \in LteVariants
       THEN \E i \in after, j \in after :
                /\ i < j
                /\ fgCalls[i].m = "lte_abort_test"
                /\ fgCalls[j].m = "lte_modem_off"
       ELSE \E i \in after : fgCalls[i].m = "lora_cw_off"

AbortTasksFinished == \A i \in 1..Len(bgAbort) : bgAbort[i].pc \in {"done", "crashed"}

DisarmAttempted ==
    \/ \E i \in 1..Len(fgCalls) :
          i > hw.armedAt /\ fgCalls[i].t = "dut" /\ fgCalls[i].m \in DisarmCmds
    \/ \E i \in 1..Len(bgAbort) : bgAbort[i].tried

\* (C3) A failure after CW-on succeeded makes the orchestrator issue the disarm
\* sequence (LoRa: CW-off; LTE: abort, then modem-off) before the Error event,
\* and no run ends with the DUT armed and no disarm command attempted.
C3_DisarmBeforeError ==
    /\ (/\ variant \in LoRaVariants \cup LteVariants
        /\ hw.armedAt > 0
        /\ gst = "susp" /\ LastEvent.type = "error")
       => DisarmAfterArm
    /\ (/\ variant \in LoRaVariants \cup LteVariants
        /\ hw.armedAt > 0 /\ hw.armed
        /\ EndedByItself /\ AbortTasksFinished)
       => DisarmAttempted

\* the Measure step: from `measure start` emitted to `measure done` emitted
InMeasure(v, pc) ==
    CASE v = "LoRaTx" -> pc >= 910 /\ pc < 950
      [] v = "LoRaFa" -> pc >= 2290 /\ pc < 2390
      [] v = "LteTx" -> pc >= 1940 /\ pc < 1990
      [] v = "LteFa" -> pc >= 6430 /\ pc < 6500
      [] OTHER -> FALSE

ConsumerOver == cend # "none"

\* (C4) When the consumer withdraws during the Measure step, the cleanup
\* scheduled on cancellation attempts a DUT disarm command (LoRa CW-off, LTE
\* abort), and only the cancellation itself is raised to the caller.
C4_CancelInMeasureDisarms ==
    /\ (/\ canc /\ InMeasure(variant, cancAt)
        /\ gst = "closed" /\ ConsumerOver /\ AbortTasksFinished)
       => \E i \in 1..Len(bgAbort) : bgAbort[i].tried
    /\ cend \in {"none", "ok", "Cancelled", "GenExit"}

\* (C5) Of two runs started concurrently against the same analyzer, at most
\* one at a time is between acquiring the analyzer and its Done, and each run
\* measures at the center frequency it configured.
C5_OneRunHoldsAnalyzer ==
    /\ Cardinality({r \in Runs : Holding(run2.pc[r])}) <= 1
    /\ \A r \in Runs : run2.pc[r] = "done" => run2.seen[r] = run2.freq[r]

\* (C6) A transport fault of any analyzer or DUT call, at any stage, is caught
\* in the orchestrator: the generator never ends by raising it.
C6_FaultsNeverEscape == gend # "HwFault"

\* (C7) With invalid parameters the run emits Start, then its error report and
\* Done, and makes no analyzer or DUT call.
C7_InvalidShortCircuits ==
    ~valid =>
        /\ fgCalls = << >>
        /\ (gst = "closed" /\ gend # "ConfigError") =>
              /\ Len(events) >= 3
              /\ events[1].type = "start"
              /\ HasEvent("error")
              /\ LastEvent.type = "done"

\* (C8) Once the run has observed cancellation it issues no further foreground
\* DUT or analyzer call.
C8_NoForegroundCallAfterCancel == [][canc => fgCalls' = fgCalls]_vars

\* (C9) Once the run has observed cancellation it emits no further event.
C9_NoEventAfterCancel == [][canc => events' = events]_vars

\* (C10) No background cleanup task ends with an unhandled exception.
C10_BackgroundNeverCrashes ==
    /\ bgDisc # "crashed"
    /\ \A i \in 1..Len(bgAbort) : bgAbort[i].pc # "crashed"

\* DUT commands that the firmware accepts only after modem-on
ModemCmds == {"lte_abort_test", "lte_modem_off"}

\* (C11) In an LTE run an abort or modem-off command reaches the DUT, from the
\* run itself or from its background cleanup, only after a modem-on command
\* of the same run has returned success.
C11_AbortOnlyAfterModemOn ==
    variant \in LteVariants =>
        /\ \A i \in 1..Len(fgCalls) :
              fgCalls[i].m \in ModemCmds => hw.modemOnAt > 0 /\ hw.modemOnAt < i
        /\ \A i \in 1..Len(bgAbort) : bgAbort[i].tried => hw.modemOnAt > 0

\* an LTE run whose handler sent abort and modem-off after a failure, and
\* whose background cleanup sent an abort as well
C11_Witness ==
    /\ variant \in LteVariants
    /\ HasEvent("error")
    /\ \E i \in 1..Len(fgCalls) : fgCalls[i].m = "lte_modem_off"
    /\ \E i \in 1..Len(bgAbort) : bgAbort[i].tried

\* indices of the Step events with a given key and status
StepIdx(k, st) ==
    {i \in 1..Len(events) :
        events[i].type = "step" /\ events[i].key = k /\ events[i].status = st}

\* some Step (k1, s1) is emitted before every Step (k2, s2)
StepBefore(k1, s1, k2, s2) ==
    \E i \in StepIdx(k1, s1) : \A j \in StepIdx(k2, s2) : i < j

\* (C12) In a BLE Tx power run in which the DUT reports the requested power,
\* no set-power or save-and-reset command is issued and no second connect is
\* made, the tone is started on the session connected at the start, and the
\* saveReset and reconnectDut steps (start, done) are emitted before toneStart.
C12_EqualPowerSkipsReset ==
    (variant = "BleTx" /\ loc.pw_eq) =>
        /\ \A i \in 1..Len(fgCalls) :
              fgCalls[i].m \notin {"ble_tx_power_set_exact", "ble_save_and_reset_exact"}
        /\ Cardinality({i \in 1..Len(fgCalls) : fgCalls[i].m = "connect"}) <= 1
        /\ ~(loc.dut2 /\ ~loc.same)
        /\ StepIdx("toneStart", "start") # {} =>
              /\ loc.same
              /\ StepBefore("saveReset", "start", "saveReset", "done")
              /\ StepBefore("saveReset", "done", "reconnectDut", "start")
              /\ StepBefore("reconnectDut", "start", "reconnectDut", "done")
              /\ StepBefore("reconnectDut", "done", "toneStart", "start")

\* the tone has been started in a run whose reported power was the requested one
C12_Witness ==
    /\ variant = "BleTx" /\ loc.pw_eq
    /\ \E i \in 1..Len(fgCalls) : fgCalls[i].m = "ble_tone_start_best_effort"
    /\ HasEvent("result")

\* a call of the session has returned or raised
Ended(op) == analyzer.pc = "idle" /\ analyzer.op = op

\* (C13) send_and_wait sends the command once; it returns True exactly when
\* some operation-complete reply trimmed to wait_for, and whenever the deadline
\* has elapsed without such a reply on a socket that has not died it fails
\* with TimeoutError, also when the instrument sends no reply at all.
C13_SendAndWaitContract ==
    Ended("send_and_wait") =>
        /\ analyzer.sentCmd <= 1
        /\ (analyzer.res = "True") <=> analyzer.matched
        /\ (analyzer.now >= analyzer.deadline /\ ~analyzer.matched /\ ~analyzer.dead)
              => analyzer.res = "TimeoutError"

InPolling == analyzer.pc \in {"saw_loop", "saw_sleep"}

\* (C14) send_and_wait terminates: a call that is polling always ends, and
\* when no reply ever equalled wait_for it ends by raising.
C14_SendAndWaitTerminates ==
    InPolling ~>
        (Ended("send_and_wait")
            /\ (analyzer.matched \/
                  analyzer.res \in {"TimeoutError", "InstrumentNotConnected"}))

\* a call that polled more than once, never saw wait_for and timed out
C14_Witness ==
    /\ Ended("send_and_wait")
    /\ analyzer.res = "TimeoutError"
    /\ ~analyzer.matched
    /\ analyzer.polls >= 2

\* (C15) connect succeeds only when the socket opened and the reply to the
\* identify command contains the vendor substring; every failure raises
\* ConnectionError and leaves the session without a socket.
C15_ConnectAllOrNothing ==
    Ended("connect") =>
        /\ analyzer.res \in {"ok", "ConnectionError"}
        /\ analyzer.res = "ok" =>
              /\ analyzer.gOpen
              /\ Contains(Vendor, analyzer.gReply)
              /\ is_connected(analyzer)
        /\ analyzer.res = "ConnectionError" =>
              ~is_connected(analyzer) /\ analyzer.sock = "none"

\* a connect that opened the socket, read an identity without the vendor
\* substring and failed
C15_Witness ==
    /\ Ended("connect")
    /\ analyzer.res = "ConnectionError"
    /\ analyzer.gOpen
    /\ analyzer.gReply # << >>
    /\ ~Contains(Vendor, analyzer.gReply)

\* what a later caller can observe of the session
SessionCore(s) == <<s.sock, s.stimeout, s.timeout, s.cached>>

\* (C16) disconnect leaves the session disconnected from any prior state,
\* never raises, even when shutdown or close fail, and a second disconnect
\* changes nothing.
C16_DisconnectTotal ==
    /\ Ended("disconnect") => ~is_connected(analyzer) /\ analyzer.res = "ok"
    /\ analyzer.pc = "idle" =>
          \A sh \in BOOLEAN, cl \in BOOLEAN, sh2 \in BOOLEAN, cl2 \in BOOLEAN :
              SessionCore(disconnect(disconnect(analyzer, sh, cl), sh2, cl2))
                  = SessionCore(disconnect(analyzer, sh, cl))

\* (C17) After a write or read fault in send_command or read_response the
\* session is disconnected (is_connected false), and ensure_analyzer never
\* hands out the session whose socket has died.
C17_FaultDisconnects ==
    /\ (analyzer.pc = "idle" /\ analyzer.dead) => ~is_connected(analyzer)
    /\ ~(Ended("ensure_analyzer") /\ analyzer.res = "cached" /\ analyzer.dead)

\* (C19) When a temp_timeout block has been left, on any path, the session's
\* timeout is the one it had before the block.
C19_TempTimeoutRestores ==
    (Ended("temp_timeout") /\ analyzer.prev # 0) => analyzer.timeout = analyzer.prev

\* (C20) When the OBW procedure has ended, every max-hold command sent to the
\* analyzer is followed by a clear-write command.
C20_ClearWriteAfterMaxHold ==
    Ended("measure_obw_via_max_hold") =>
        \A i \in 1..Len(analyzer.cmds) :
            analyzer.cmds[i] = "MAXHold" =>
                \E j \in (i + 1)..Len(analyzer.cmds) : analyzer.cmds[j] = "WRIT"

\* (C18) Every hardware call of an orchestrator is bounded by a timeout: no run
\* is ever held in a call that does not return.
C18_HardwareCallsBounded == gst # "hung"

Returned(fn) == calc.fn = fn /\ calc.done

\* (C21) The OBW computation returns a value only when it lies in
\* (0, 1.05 x span]; whenever the computed width x bin is outside it raises
\* ValueError, and a returned value is the computed one, unchanged.
C21_ObwBoundCheck ==
    (Returned("obw") /\ Len(calc.in.dbm) >= MIN_TRACE_POINTS) =>
        LET o  == calc.out
            ok == o.num > 0 /\ 100 * o.num <= 105 * calc.in.span * o.den
        IN  /\ o.exc \in {"none", "ValueError"}
            /\ o.exc = "none" <=> ok
            /\ o.den = Max2(1, calc.in.pts - 1)
            /\ o.num = Max2(1, o.right - o.left) * calc.in.span

\* a trace whose computed bandwidth exceeds 1.05 x span and is refused
C21_Witness ==
    /\ Returned("obw")
    /\ calc.out.exc = "ValueError"
    /\ calc.in.span > 0
    /\ 100 * calc.out.num > 105 * calc.in.span * calc.out.den

\* all samples of the trace carry the same power
EqualPower(dbm) == \A i \in 1..Len(dbm) : dbm[i] = dbm[1]

\* the bandwidth computed for the same trace, span and point count at every
\* lower percentage is not greater
ObwMonotone ==
    \A q \in Pcts :
        LET o == compute_obw_from_trace(calc.in.dbm, calc.in.span, calc.in.pts, q)
        IN  (q <= calc.in.pct /\ o.exc = "none" /\ calc.out.exc = "none")
                => o.num * calc.out.den <= calc.out.num * o.den

\* (C22, as stated) The computed bandwidth does not decrease as pct grows, and
\* an equal-power trace with as many points as samples gives the span.
C22_MonotoneAndEqualPowerSpan ==
    Returned("obw") =>
        /\ ObwMonotone
        /\ (calc.out.exc = "none" /\ EqualPower(calc.in.dbm)
               /\ calc.in.pts = Len(calc.in.dbm))
              => calc.out.num = calc.in.span * calc.out.den

\* (C22, amended) The computed bandwidth does not decrease as pct grows; an
\* equal-power trace of n samples with n points gives the span exactly when
\* pct percent of n samples is more than n - 1 samples, and less otherwise.
C22_MonotoneAndEqualPowerShare ==
    Returned("obw") =>
        /\ ObwMonotone
        /\ (calc.out.exc = "none" /\ EqualPower(calc.in.dbm)
               /\ calc.in.pts = Len(calc.in.dbm))
              => LET n == Len(calc.in.dbm)
                 IN  (calc.out.num = calc.in.span * calc.out.den)
                        <=> (calc.in.pct * n > 100 * (n - 1))

\* an equal-power trace at 99 percent whose bandwidth is the span
C22_Witness ==
    /\ Returned("obw")
    /\ calc.out.exc = "none"
    /\ EqualPower(calc.in.dbm)
    /\ calc.in.pts = Len(calc.in.dbm)
    /\ calc.in.pct = 99
    /\ calc.out.num = calc.in.span * calc.out.den

\* the linear power of samples l..r of the trace
WindowPower(dbm, l, r) == SumSeq([i \in 1..(r - l + 1) |-> Lin(dbm[l + i - 1])])

\* (C23) The window the OBW loop ends with contains the peak, holds at least
\* pct percent of the total power, and no shorter contiguous window that
\* contains the peak does.
C23_SmallestWindow ==
    (Returned("obw") /\ calc.out.exc = "none") =>
        LET dbm   == calc.in.dbm
            n     == Len(dbm)
            total == WindowPower(dbm, 1, n)
            peak  == peak_index([i \in 1..n |-> Lin(dbm[i])])
            L     == calc.out.left
            R     == calc.out.right
        IN  /\ L <= peak /\ peak <= R
            /\ 100 * WindowPower(dbm, L, R) >= total * calc.in.pct
            /\ \A l \in 1..peak, r \in peak..n :
                  (r - l < R - L) =>
                      100 * WindowPower(dbm, l, r) < total * calc.in.pct

\* (C24) The pass value of a Tx power result is null when no bound is given,
\* and otherwise true exactly when the measured power is within every bound
\* that is given.
C24_TxPowerPass ==
    Returned("tx_pass") =>
        LET lo == calc.in.min_value
            hi == calc.in.max_value
            m  == calc.in.measured
        IN  IF ~lo.some /\ ~hi.some THEN calc.out = "null"
            ELSE /\ calc.out \in {"true", "false"}
                 /\ calc.out = "true" <=>
                       ((lo.some => m >= lo.v) /\ (hi.some => m <= hi.v))

\* a measured power under the only bound given, the lower one: not passed
C24_Witness ==
    /\ Returned("tx_pass")
    /\ calc.in.min_value.some /\ ~calc.in.max_value.some
    /\ calc.in.measured < calc.in.min_value.v
    /\ calc.out = "false"

\* (C25) The frequency accuracy result carries errorHz = measured - expected,
\* signed, errorPpm = errorHz / expected x 10^6, and pass is null without a
\* ppm limit and otherwise true exactly when |errorPpm| <= the limit.
C25_SignedErrorAndPpm ==
    (Returned("freq_error") /\ calc.in.expected.mhz # 0) =>
        LET e == HzDiff(calc.in.measured, calc.in.expected)
        IN  /\ calc.out.errorHz = e
            /\ calc.out.ppm = Some(e) /\ calc.out.ppmDen = calc.in.expected.mhz
            /\ IF ~calc.in.ppm_limit.some THEN calc.out.pass = "null"
               ELSE calc.out.pass =
                      Bool3(Abs(e) <= calc.in.ppm_limit.v * calc.in.expected.mhz)

\* the number a query's reply yields, if any
Yields(r) == ~r.rejected /\ \E i \in 1..Len(r.toks) : r.toks[i].isnum

\* (C26) A get operation returns the number of the templated query's reply;
\* when that query is rejected or has no number it returns the number of the
\* fallback query's reply, and it fails only if no fallback yields a number.
C26_GetFallsBack ==
    Returned("get") =>
        LET i    == calc.in
            more == i.op \in {"get_rbw", "get_vbw"}
        IN  /\ Yields(i.r1) =>
                  calc.out = only_number(i.r1.toks)
            /\ (~Yields(i.r1) /\ Yields(i.r2)) =>
                  calc.out = only_number(i.r2.toks)
            /\ calc.out.exc # "none" =>
                  (~Yields(i.r1) /\ ~Yields(i.r2) /\ (more => ~Yields(i.r3)))

\* (C27) Without a valid configured pass the three built-in passes 2 MHz /
\* 30 kHz / 100 kHz, 200 kHz / 10 kHz / 30 kHz, 20 kHz / 1 kHz / 3 kHz are
\* used in this order by every variant; otherwise the valid configured
\* passes, in configured order.
C27_ZoomPasses ==
    Returned("load_zooms") =>
        LET conf == IF calc.in.cfg.islist THEN valid_passes(calc.in.cfg.raw) ELSE << >>
        IN  IF conf = << >>
            THEN calc.out = << Pass(2000000, 30000, 100000),
                               Pass(200000, 10000, 30000),
                               Pass(20000, 1000, 3000) >>
            ELSE calc.out = conf

(***************************************************************************)
(* Order of the events and the hardware calls of a run.                    *)
(***************************************************************************)
\* the step yields an event of type t
Emits(t) == Len(events') = Len(events) + 1 /\ events'[Len(events')].type = t

\* the step issues one of the DUT commands ms from the run itself
IssuesDut(ms) ==
    /\ Len(fgCalls') = Len(fgCalls) + 1
    /\ fgCalls'[Len(fgCalls')].t = "dut"
    /\ fgCalls'[Len(fgCalls')].m \in ms

\* the commands of the protocols' arm sequences
ArmSequence == ArmCmds \cup {"lte_modem_on"}

ConfigureDone == StepIdx("configureAnalyzer", "done") # {}

\* the protocol's disarm sequence has been issued after the arm; BLE has none
Disarmed == variant \in {"BleTx", "BleFa"} \/ DisarmAfterArm

\* a DUT disconnect has been issued after the arm
DisconnectAfterArm ==
    \E i \in 1..Len(fgCalls) :
        i > hw.armedAt /\ fgCalls[i].t = "dut" /\ fgCalls[i].m = "disconnect"

\* (C28) In every successful run the DUT is never armed before the analyzer
\* configuration has completed, and the Result event is emitted only after the
\* disarm sequence and the DUT disconnect have been performed.
C28_SkeletonOrder ==
    [][/\ IssuesDut(ArmSequence) => ConfigureDone
       /\ (Emits("result") /\ ~HasEvent("error")) =>
              hw.armedAt > 0 /\ Disarmed /\ DisconnectAfterArm]_vars

\* the disconnect of the run's DUT session has been issued and the session
\* has not been connected again since
SessionClosed ==
    /\ loc.dut /\ ~loc.conn
    /\ \E i \in 1..Len(fgCalls) : fgCalls[i].t = "dut" /\ fgCalls[i].m = "disconnect"

\* the step sends one of the radio commands ms to the device: a call that
\* returns at the _connected check sends nothing
SendsRadio(ms) == IssuesDut(ms) /\ fgCalls'[Len(fgCalls')].live

\* (C29) Every DUT radio command the run itself issues (CW-off, abort,
\* modem-off) is issued while the DUT session is still connected: none is sent
\* on a session after that session's disconnect has been issued, on the
\* success, error-handling and final-cleanup paths.
C29_NoRadioCommandAfterDisconnect ==
    [][SendsRadio(DisarmCmds) => ~SessionClosed]_vars

\* the DUT commands of the run after the connect, in the order issued
DutCmds == SelectSeq(fgCalls, LAMBDA c : c.t = "dut" /\ c.m # "connect")

\* the method names of a call sequence, a repeated command counted once
RECURSIVE Collapse(_)
Collapse(s) ==
    IF Len(s) = 0 THEN << >>
    ELSE IF Len(s) = 1 THEN <<s[1].m>>
    ELSE IF s[1].m = s[2].m THEN Collapse(Tail(s))
    ELSE <<s[1].m>> \o Collapse(Tail(s))

LteCommandOrder ==
    <<"lte_modem_on", "lte_abort_test", "lte_cw_on",
      "lte_abort_test", "lte_modem_off", "disconnect">>

Successful == HasEvent("result") /\ ~HasEvent("error")

\* the step yields the measure done step
MeasureDone ==
    /\ Emits("step")
    /\ events'[Len(events')].key = "measure" /\ events'[Len(events')].status = "done"

\* the last DUT command issued so far is the successful continuous-wave-on
NoDutCommandSinceArm ==
    /\ hw.armedAt > 0
    /\ \A i \in 1..Len(fgCalls) : i > hw.armedAt => fgCalls[i].t # "dut"

\* the safety abort has been attempted after the successful modem-on
SafetyAbortAttempted ==
    /\ hw.modemOnAt > 0
    /\ \E i \in 1..Len(fgCalls) :
          i > hw.modemOnAt /\ fgCalls[i].t = "dut" /\ fgCalls[i].m = "lte_abort_test"

\* the order of the LTE protocol is kept by a step of the run
LteOrderKept ==
    /\ Successful' => Collapse(DutCmds') = LteCommandOrder
    /\ MeasureDone => NoDutCommandSinceArm
    /\ IssuesDut({"lte_cw_on"}) => SafetyAbortAttempted

\* (C30) In a successful LTE run the DUT commands are issued in the order
\* modem-on, abort (safety), continuous-wave-on, then, after the measurement,
\* abort, modem-off, disconnect; no DUT command is issued during the
\* measurement, and continuous-wave-on is never issued before modem-on has
\* succeeded and the safety abort has been attempted.
C30_LteCommandOrder == [][(variant \in LteVariants) => LteOrderKept]_vars

\* a successful LTE run has ended; its modem-on needed a second attempt
C30_Witness ==
    /\ variant \in LteVariants /\ Successful /\ gst = "closed"
    /\ Cardinality({i \in 1..Len(fgCalls) : fgCalls[i].m = "lte_modem_on"}) = 2

(***************************************************************************)
(* BLE Tx power: set, save-and-reset, settle, reconnect, tone.             *)
(***************************************************************************)
\* indices of the run's calls of DUT method m
DutIdx(m) == {i \in 1..Len(fgCalls) : fgCalls[i].t = "dut" /\ fgCalls[i].m = m}

\* the connects issued after the save-and-reset: the reconnect attempts
ReconnectIdx ==
    {i \in DutIdx("connect") : \E j \in DutIdx("ble_save_and_reset_exact") : j < i}

\* the tone-start command has been accepted by a DUT session
ToneStarted == hw.armedAt > 0

\* the order of the power change as the run's calls show it
PowerChangeOrder ==
    /\ \A j \in DutIdx("ble_save_and_reset_exact") :
          \E i \in DutIdx("ble_tx_power_set_exact") : i < j
    /\ Cardinality(ReconnectIdx) <= RECONNECT_ATTEMPTS
    /\ ToneStarted =>
          /\ loc.dut2 /\ ~loc.same
          /\ \E i \in ReconnectIdx : i < hw.armedAt
          /\ \A i \in ReconnectIdx : i < hw.armedAt
    /\ (EndedByItself /\ DutIdx("ble_save_and_reset_exact") # {} /\ ~ToneStarted) =>
          HasEvent("error")

\* the step in which a session accepts the tone-start command finds the
\* second session connected
ToneOnReconnected ==
    hw'.armedAt # hw.armedAt => (loc.dut2 /\ ~loc.same /\ loc.conn2)

\* the reconnect loop (tests_ble.py 205) is entered from the settle sleep
\* (203) or from the backoff sleep of a failed attempt (222)
ReconnectAfterSettle ==
    (gpc' = 2060 /\ gpc # 2060) => (gpc \in {2030, 2221} /\ I.op \in {"sleep", "loop"})

\* (C31) In a BLE Tx power run whose reported power differs from the requested
\* one or cannot be read, set-power precedes save-and-reset, the reconnect
\* follows the settle wait and makes at most reconnect_attempts attempts, the
\* tone is started only on a session obtained from a successful reconnect, and
\* a run in which every attempt failed never starts the tone and reports an
\* Error.
C31_PowerChangeThenReconnect ==
    [][(variant = "BleTx" /\ ~loc.pw_eq) => (/\ PowerChangeOrder'
                                           /\ ToneOnReconnected
                                           /\ ReconnectAfterSettle)]_vars

\* every reconnect attempt failed on a constructed session and the run has
\* ended with an Error
C31_Witness ==
    /\ variant = "BleTx" /\ ~loc.pw_eq /\ EndedByItself
    /\ Cardinality(ReconnectIdx) = RECONNECT_ATTEMPTS
    /\ loc.dut2 /\ ~ToneStarted /\ HasEvent("error")

(***************************************************************************)
(* Retried DUT commands.                                                   *)
(***************************************************************************)
\* the commands the LoRa and LTE runs retry, and their attempt limits
Retried == {"connect", "lte_modem_on", "lte_cw_on"}

RetryLimit(m) == IF m = "connect" THEN MANAGED_BLE_ATTEMPTS ELSE LTE_RETRY_ATTEMPTS

\* an attempt of m has succeeded
RetrySucceeded(m) ==
    CASE m = "connect" -> loc.conn
      [] m = "lte_modem_on" -> hw.modemOnAt > 0
      [] OTHER -> hw.armedAt > 0

\* a step of a LoRa or LTE run keeps the retry discipline of command m
RetryKept(m) ==
    /\ Cardinality(DutIdx(m))' <= RetryLimit(m)
    /\ IssuesDut({m}) =>
          /\ ~RetrySucceeded(m)
          /\ (~RetrySucceeded(m)' /\ Cardinality(DutIdx(m))' = RetryLimit(m)) =>
                 gpc' \notin {I.nxt, I.alt}

\* a step of a BLE Tx power run keeps the retry discipline of the reconnect:
\* after the last failed attempt the run does not go on to the tone commands
ReconnectKept ==
    /\ Cardinality(ReconnectIdx)' <= RECONNECT_ATTEMPTS
    /\ (IssuesDut({"connect"}) /\ ReconnectIdx' # ReconnectIdx) => ~loc.conn2
    /\ IssuesDut({"_send_tone_stop_best_effort", "ble_tone_start_best_effort"}) =>
          SessConn("dut2")

\* (C32) Every retried DUT command (connect in managed_ble, LTE modem-on and
\* CW-on, BLE reconnect after reset) is attempted at most the configured
\* number of times, stops at the first success, and after the last failed
\* attempt the failure is raised to the run.
C32_RetriesBoundedAndRaised ==
    [][/\ (variant \in LoRaVariants \cup LteVariants) => \A m \in Retried : RetryKept(m)
       /\ (variant = "BleTx") => ReconnectKept]_vars

\* the generator, not cancelled, is at a yield or has finished: every event
\* due is out
AtYield == gst \in {"susp", "closed"} /\ ~canc

\* failed attempts of the LTE modem-on handshake
FailedModemOn ==
    Cardinality(DutIdx("lte_modem_on")) - (IF hw.modemOnAt > 0 THEN 1 ELSE 0)

\* failed connects of the BLE reconnect after reset
FailedReconnect ==
    Cardinality(ReconnectIdx) - (IF StepIdx("reconnectDut", "done") # {} THEN 1 ELSE 0)

\* (C33) Each failed attempt of a retried DUT command (LTE modem-on handshake,
\* BLE reconnect after reset) is reported as a Step event with status error:
\* whenever a run that was not cancelled is at a yield, there are at least as
\* many such events as failed attempts.
C33_FailedAttemptsReported ==
    AtYield =>
        /\ variant \in LteVariants =>
               FailedModemOn <= Cardinality(StepIdx("modemOn", "error"))
        /\ (variant = "BleTx" /\ ~loc.pw_eq) =>
               FailedReconnect <= Cardinality(StepIdx("reconnectDut", "error"))

(***************************************************************************)
(* Frequency accuracy: zoom passes and the final reads.                    *)
(***************************************************************************)
FaVariants == {"LoRaFa", "LteFa", "BleFa"}

\* the analyzer commands sent since the DUT was armed, in order
AnalyzerCmdsSinceArm ==
    LET after == SubSeq(fgCalls, hw.armedAt + 1, Len(fgCalls))
        sent_ == SelectSeq(after, LAMBDA c : c.t = "spec" /\ c.live)
    IN  [i \in 1..Len(sent_) |-> sent_[i].m]

ZoomPassCmds ==
    <<"set_span", "set_rbw", "set_vbw", "peak_search", "set_marker_to_center_frequency">>

RECURSIVE Repeat(_, _)
Repeat(s, n) == IF n = 0 THEN << >> ELSE s \o Repeat(s, n - 1)

\* (C34) In every FrequencyAccuracy run each zoom pass issues set-span,
\* set-RBW, set-VBW, peak-search and a marker-to-center command, and after the
\* last pass two successive marker-frequency reads are made: when the measure
\* done step is emitted these are exactly the analyzer commands sent since the
\* DUT was armed.
C34_ZoomThenTwoReads ==
    [][(variant \in FaVariants /\ MeasureDone) =>
          AnalyzerCmdsSinceArm =
              Repeat(ZoomPassCmds, NumZooms) \o
              <<"get_marker_frequency", "get_marker_frequency">>]_vars

\* (C35) For any interleaving of concurrent ensure_analyzer() calls for one
\* target, at most one analyzer connection is opened, every caller receives
\* the same session, and no opened connection is left without a cached
\* reference (held or about to be stored) through which it can be closed.
C35_OneSharedConnection ==
    /\ Cardinality(pool.open) <= 1
    /\ \A t \in Threads, u \in Threads :
          (PoolAt(t, "returned") /\ PoolAt(u, "returned")) => pool.got[t] = pool.got[u]
    /\ \A c \in pool.open : pool.cached = c \/ PoolAt(c, "assign")

(***************************************************************************)
(* The OBW window search, step by step.                                    *)
(***************************************************************************)
Searching == calc.fn = "obw_search" /\ calc.out # << >>

\* the window is inside the trace, holds the peak, and acc is its power
WindowSound ==
    LET w == calc.out
        n == Len(calc.in.dbm)
    IN  /\ 1 <= w.left /\ w.left <= w.peak /\ w.peak <= w.right /\ w.right <= n
        /\ w.acc = WindowPower(calc.in.dbm, w.left, w.right)
        /\ calc.done =>
              \/ 100 * w.acc >= WindowPower(calc.in.dbm, 1, n) * calc.in.pct
              \/ (w.left = 1 /\ w.right = n)

\* a step that changes the window adds one sample, on the side of the larger
\* neighbour, on the left when the neighbours are equal
GrowsTowardLarger ==
    LET w   == calc.out
        v   == calc'.out
        lin == LinOf(calc.in.dbm)
        n   == Len(lin)
    IN  (Searching /\ v # w) =>
            /\ v.right - v.left = (w.right - w.left) + 1
            /\ (v.left = w.left - 1 /\ v.right = w.right)
               \/ (v.left = w.left /\ v.right = w.right + 1)
            /\ (w.left > 1 /\ w.right < n) =>
                  (v.right = w.right + 1 <=> lin[w.right + 1] > lin[w.left - 1])

\* (C36) Throughout the OBW window search the window stays inside the trace
\* and contains the peak, it grows by exactly one sample per step toward the
\* open side with the larger neighbouring power (left on equal neighbours),
\* the accumulated power equals the sum over the window, and the search stops
\* only when the accumulated power reaches the target or the window covers
\* the whole trace.
C36_WindowSearchInvariant ==
    [][(Searching' => WindowSound') /\ GrowsTowardLarger]_vars

\* a finished search that grew on both sides and stopped short of both ends
C36_Witness ==
    /\ Searching /\ calc.done
    /\ 1 < calc.out.left /\ calc.out.left < calc.out.peak
    /\ calc.out.peak < calc.out.right /\ calc.out.right < Len(calc.in.dbm)

\* (C37) The orchestrator's OBW computation and the analyzer driver's are
\* equivalent: for every parsed trace, span, point count and percentage they
\* return the same bandwidth, or both raise (the same exception).
C37_ObwImplementationsAgree ==
    Returned("obw_both") =>
        LET a == calc.out.orch
            b == calc.out.drv
        IN  /\ a.exc = b.exc
            /\ a.exc = "none" => a.num * b.den = b.num * a.den

\* both returned a bandwidth narrower than the span from a window that grew
C37_Witness ==
    /\ Returned("obw_both")
    /\ calc.out.orch.exc = "none" /\ calc.out.drv.exc = "none"
    /\ calc.out.orch.right - calc.out.orch.left >= 2
    /\ calc.out.drv.num < calc.in.span * calc.out.drv.den

\* (C38) The Done event's ok field is true if and only if the run emitted no
\* Error event: a run that reported an Error ends with Done carrying
\* ok = false.
C38_DoneOkIffNoError ==
    \A i \in 1..Len(events) :
        events[i].type = "done" =>
            (events[i].status = "true" <=> ~HasEvent("error"))

\* (C39) A run never emits both a Result event and an Error event, and a
\* Result is emitted at most once.
ResultIdx == {i \in 1..Len(events) : events[i].type = "result"}
C39_ResultExcludesError ==
    /\ Cardinality(ResultIdx) <= 1
    /\ ~(HasEvent("result") /\ HasEvent("error"))

\* the settings named in the message of the configureAnalyzer done step
\* (tests_lora.py 76, 200, 363-373; tests_lte.py 150-156, 372, 593;
\* tests_ble.py 149-157, 357)
configure_done_reports(v) ==
    CASE v \in {"LoRaTx", "LteTx", "LoRaObw"} ->
             {"set_center_frequency", "set_span", "set_rbw", "set_vbw",
              "set_ref_level_offset"}
      [] v = "BleTx" ->
             {"set_center_frequency", "set_span", "set_rbw", "set_vbw"}
      [] OTHER -> {"set_center_frequency"}

EmitsConfigureDone ==
    /\ Emits("step")
    /\ events'[Len(events')].key = "configureAnalyzer"
    /\ events'[Len(events')].status = "done"

\* (C40) When the configureAnalyzer step reports done, every setting it
\* reports has been accepted by the analyzer: no set command that failed or
\* timed out during the setup is reported as applied.
C40_ReportedSettingsAccepted ==
    [][EmitsConfigureDone => (configure_done_reports(variant) \cap hw.refused = {})]_vars

====
